---- MODULE Spec2Model ----
(***************************************************************************)
(* Model of MediabunnyConversionService                                    *)
(* (src/src/app/mediabunny-conversion.service.ts, second version of the    *)
(* class, lines 321-548): the single-flight convert() orchestration, its   *)
(* cancel closure, cancelConversion(), the cached capability probe and the *)
(* output file name; and of VideoToAudioConverterComponent                 *)
(* (src/unnamed/part_001), the component that drives the service.          *)
(*                                                                         *)
(* One convert() invocation is a process whose position (pc) is the await  *)
(* it is suspended at.  Everything the code runs between two awaits is one *)
(* action.  The media engine, the File and the capability probe are the    *)
(* environment: each of their promises settles by an action of its own,    *)
(* with the result drawn from the outcomes the API allows.                 *)
(***************************************************************************)
EXTENDS Integers, Sequences, FiniteSets, TLC

\* ---------------------------------------------------------------- bounds
\* Number of convert() invocations made on the one service instance.
MaxCalls == 2
\* Number of progress values the engine reports to one call's onProgress handler.
MaxProgress == 2

\* Number of direct isFormatSupported() invocations made by outside callers.
MaxQueries == 2

\* Number of discarded tracks an invalid plan carries.
MaxTracks == 2

\* Length of the free part of a source file name handed to buildOutputName.
MaxNameLen == 4
\* Length of the run of letters put in front of the free part to make a long
\* file name.
FillerLength == 62

Calls == 1..MaxCalls
Queries == 1..MaxQueries
\* The value of activeCancel when it is undefined.
NoCall == 0

\* ------------------------------------------------------- format catalog
\* AUDIO_FORMAT_SPECS, in declaration order.
FormatIds == <<"mp3", "wav", "ogg", "aac", "flac">>
CatalogIds == {FormatIds[i] : i \in 1..Len(FormatIds)}
\* The entries with alwaysAvailable: true.
AlwaysAvailable == {"mp3", "wav"}
ProbedIds == CatalogIds \ AlwaysAvailable
\* AUDIO_FORMAT_SPECS[f].label.
Label(f) ==
    CASE f = "mp3" -> "MP3"
      [] f = "wav" -> "WAV"
      [] f = "ogg" -> "OGG (Opus)"
      [] f = "aac" -> "AAC"
      [] f = "flac" -> "FLAC"

\* AUDIO_FORMAT_SPECS[f].unsupportedMessage; "undefined" where the entry has none.
UnsupportedMessage(f) ==
    CASE f = "ogg" -> "This browser cannot encode Opus audio yet. Try Chrome 116+, Firefox 130+, or use MP3/WAV."
      [] f = "aac" -> "AAC encoding needs native WebCodecs support (Safari 17+, Chrome 120+ with flags)."
      [] f = "flac" -> "FLAC encoding is still experimental in WebCodecs. Use WAV for lossless audio in this browser."
      [] OTHER -> "undefined"

\* Format ids handed to convert(): a probed one and one that is not in the
\* catalog.
RequestFormats == {"ogg", "bogus"}

\* Raw progress ratios reported by the engine, in tenths (-0.2, 0.5, 1.4).
EngineRatios == {-2, 5, 14}

VARIABLES
    activeCancel,     \* this.activeCancel: the call whose cancel closure it holds, or NoCall
    supportChecks,    \* this.supportChecks: per catalog id "absent" (no entry) | "pending" | "true" | "false"
    call,             \* per convert() invocation: its arguments, locals and position (see NewCall)
    lastOp,           \* history: "cancelConversion" when the last step was a cancelConversion() call, else "other"
    probes,           \* history, per catalog id: how often canEncodeAudio was invoked and how it settled
    queries,          \* per direct isFormatSupported() invocation: its argument, position and result
    listing,          \* the getFormatOptionsWithSupport() invocation: its position and its options array
    ui,               \* the signals and the pending convertSelected() of VideoToAudioConverterComponent (see NewUi)
    naming            \* one buildOutputName(originalName, extension) evaluation: arguments and result

vars == <<activeCancel, supportChecks, call, lastOp, probes, queries, listing, ui, naming>>

\* ------------------------------------------------------ callback events
Log(m) == [kind |-> "log", msg |-> m, ratio |-> 0]
Progress(r) == [kind |-> "progress", msg |-> "", ratio |-> r]

\* The log lines of convert() and of its cancel closure (the file name and
\* the header bytes they embed are left out).
LoadingMemoryLog == "Loading file into memory for Mediabunny analysis..."
LoadingFileLog == "Loading file with Mediabunny..."
DetectedLog == "Detected container."
HeaderDumpLog == "Unable to detect the container format from the file header. First 32 bytes: ..."
TranscodeLog == "Transcoding audio to MP3 with Mediabunny..."
CancelLog == "Cancel requested. Stopping conversion..."
FinishedLog == "Conversion finished."

Min(a, b) == IF a < b THEN a ELSE b
Max(a, b) == IF a > b THEN a ELSE b
\* Math.min(Math.max(progress, 0), 1), in tenths.
Clamp(p) == Min(Max(p, 0), 10)

\* --------------------------------------------------- one convert() call
\* The arguments and closure variables of one convert() invocation.
\*   pc              the await the call is suspended at; "idle" before the call
\*                   is made, "done" once its promise has settled
\*   outcome         how the promise settled ("none" while pending)
\*   cancelRequested the closure variable cancelRequested
\*   cancelPromise   "pending" | "rejected"
\*   conversion      TRUE once the closure variable conversion is non-null
\*   execState       conversion.execute(): "notInvoked" | "running" | "resolved" | "rejected"
\*   race            Promise.race([execute(), cancelPromise]):
\*                   "none" | "pending" | "ok" | "err" | "abort"
\*   abortCalls      number of conversion.cancel() invocations
\*   abortFailed     TRUE when a conversion.cancel() promise rejected
\*   inputState      the engine Input: "none" | "live" | "disposed"
\*   targetBuffer    target.buffer: "null" | "empty" (byteLength 0) | "bytes"
\*   blob            the blob of the returned ConversionResult:
\*                   "none" | "empty" (size 0) | "bytes"
\*   events          what was emitted through callbacks.onLog / onProgress
\*   engineOps       the engine operations the call invoked, in order:
\*                   "getFormat" | "init" | "execute" | "cancel" | "dispose"
\*   isValid         conversion.isValid (meaningful once conversion is non-null)
\*   discardedTracks conversion.discardedTracks of an invalid plan, each
\*                   [type, reason]
\*   engineReports   the raw ratios the engine passed to conversion.onProgress
\*   message         the message of the Error the call threw, for the errors
\*                   convert() builds from the catalog or from the plan and
\*                   for the engine's error rethrown by the detection catch
\*                   block ("none" otherwise)
NewCall ==
    [pc |-> "idle", formatId |-> "none", outcome |-> "none", message |-> "none",
     cancelRequested |-> FALSE, cancelPromise |-> "pending",
     conversion |-> FALSE, execState |-> "notInvoked", race |-> "none",
     abortCalls |-> 0, abortFailed |-> FALSE, inputState |-> "none",
     targetBuffer |-> "null", blob |-> "none", events |-> <<>>,
     engineReports |-> <<>>, isValid |-> FALSE, discardedTracks |-> <<>>,
     engineOps |-> <<>>]

\* One isFormatSupported(formatId) invocation made by an outside caller.
\*   pc      "idle" before the call, "waiting" on the returned promise, "done"
\*   result  what the promise resolved to ("true" | "false"), "none" before
NewQuery == [pc |-> "idle", formatId |-> "none", result |-> "none"]

\* The getFormatOptionsWithSupport() invocation.
\*   pc       "idle" | "awaiting" (await this.isFormatSupported(option.id)) | "done"
\*   index    position in AUDIO_OUTPUT_OPTIONS of the option being awaited
\*   options  the options array built so far
NewListing == [pc |-> "idle", index |-> 0, options |-> <<>>]

\* ------------------------------------------------ the converter component
\* VideoToAudioConverterComponent: its signals, and the locals of the one
\* convertSelected() that may be suspended at await conversionService.convert.
\*   selectedFile the File selected, or NoFile for null
\*   downloadUrl  NoUrl for null, or the blob the object URL was made of and
\*                the File that blob was converted from
\*   outputFileName  <<>> for null, or the characters of the name
\*   call         the convert() invocation convertSelected() awaits, or NoCall
\*   file, formatId, formatLabel   the locals of that convertSelected()
\*   logged       history: every line handed to the onLog handler since
\*                convertSelected() last started a conversion
\*   loggedSinceReset  history: those of them handed over since logs was
\*                last set to []
\*   cancelAsked  history: the component has invoked the service's
\*                cancelConversion() since convertSelected() last started a
\*                conversion
\* A File: its name as characters (see the output file name) and as text.
NoFile == [name |-> <<>>, text |-> ""]
NoUrl == [file |-> NoFile, blob |-> "none"]

NewUi ==
    [formatOptions |-> <<>>, selectedFormatId |-> "mp3", optionsLoaded |-> FALSE,
     selectedFile |-> NoFile, isConverting |-> FALSE, progress |-> 0,
     status |-> "Drop a video to start converting locally.",
     errorMessage |-> "null", downloadUrl |-> NoUrl, outputFileName |-> <<>>,
     logs |-> <<>>,
     call |-> NoCall, file |-> NoFile, formatId |-> "none", formatLabel |-> "none",
     logged |-> <<>>, loggedSinceReset |-> <<>>, cancelAsked |-> FALSE]

\* next.slice(-40): the number of log lines the component keeps.
LogLimit == 40

\* s.slice(-n) for n > 0.
SliceLast(s, n) == IF Len(s) <= n THEN s ELSE SubSeq(s, Len(s) - n + 1, Len(s))

\* Mutant of OnLogHandler: the oldest lines are kept.
OnLogHandlerKeepOldest(u, message) ==
    [u EXCEPT !.logs = SubSeq(Append(@, message), 1, Min(Len(@) + 1, LogLimit)),
              !.logged = Append(@, message),
              !.loggedSinceReset = Append(@, message)]

\* onLog: (message) => this.logs.update(current => [...current, message].slice(-40)).
OnLogHandler(u, message) ==
    [u EXCEPT !.logs = SliceLast(Append(@, message), LogLimit),
              !.logged = Append(@, message),
              !.loggedSinceReset = Append(@, message)]

\* onProgress: (ratio) => { percent = Math.round(clamp(ratio) * 100); ... },
\* the ratio in tenths.
OnProgressHandler(u, ratio) ==
    [u EXCEPT !.progress = Clamp(ratio) * 10,
              !.status = IF Clamp(ratio) * 10 >= 100
                         THEN "Finalizing the audio file..."
                         ELSE "Converting to " \o u.formatLabel \o " - "
                                  \o ToString(Clamp(ratio) * 10) \o "%"]

\* The component after the callbacks were invoked for the events es, in order.
RECURSIVE Deliver(_, _)
Deliver(u, es) ==
    IF es = <<>> THEN u
    ELSE Deliver(IF Head(es).kind = "log"
                 THEN OnLogHandler(u, Head(es).msg)
                 ELSE OnProgressHandler(u, Head(es).ratio),
                 Tail(es))

\* callbacks?.onLog?.(...) / callbacks?.onProgress?.(...): what a step of the
\* service emits for the call the component awaits reaches the component's
\* handlers within that step.  Calls made by other callers carry their own
\* callbacks.
AfterCallbacks ==
    IF ui.call = NoCall THEN ui
    ELSE Deliver(ui, SubSeq(call'[ui.call].events,
                            Len(call[ui.call].events) + 1,
                            Len(call'[ui.call].events)))

\* A step of the service as the component sees it.
Relay ==
    /\ ui' = AfterCallbacks
    /\ UNCHANGED naming

\* buildOutputName before it is evaluated.
NewNaming == [originalName |-> <<>>, extension |-> <<>>, fileName |-> "none"]

\* The service where no component drives it: its callers bring callbacks
\* of their own.
NoComponent == [call |-> NoCall]

\* The service as constructed.
Constructed ==
    /\ activeCancel = NoCall
    /\ supportChecks = [f \in CatalogIds |-> "absent"]
    /\ call = [c \in Calls |-> NewCall]
    /\ lastOp = "other"
    /\ probes = [f \in CatalogIds |-> [calls |-> 0, result |-> "none"]]
    /\ queries = [q \in Queries |-> NewQuery]
    /\ listing = NewListing

Init ==
    /\ Constructed
    /\ ui = NoComponent
    /\ naming = NewNaming

\* The service and the component that drives it, as constructed.
UiInit ==
    /\ Constructed
    /\ ui = NewUi
    /\ naming = NewNaming

Emit(r, e) == [r EXCEPT !.events = Append(@, e)]

\* The promise returned by convert() settles with outcome o.
Settle(r, o) == [r EXCEPT !.pc = "done", !.outcome = o]

\* The promise returned by convert() rejects with new Error(m).
Fail(r, o, m) == [Settle(r, o) EXCEPT !.message = m]

\* The finally block, call-local part: input.dispose().
DisposeInput(r) ==
    [r EXCEPT !.inputState = "disposed", !.engineOps = Append(@, "dispose")]

\* Mutant of MarkerAfterFinally: the finally block forgets to clear the marker.
MarkerLeftSet == activeCancel

\* The finally block, service part: this.activeCancel = undefined.
MarkerAfterFinally == NoCall

\* Mutant of Cancel: the closure without its cancelRequested guard.
CancelWithoutGuard(r, abortRejects) ==
    [r EXCEPT
        !.cancelRequested = TRUE,
        !.events = Append(@, Log(CancelLog)),
        !.abortCalls = IF r.conversion THEN @ + 1 ELSE @,
        !.engineOps = IF r.conversion THEN Append(@, "cancel") ELSE @,
        !.abortFailed = IF r.conversion THEN abortRejects ELSE @,
        !.cancelPromise = "rejected",
        !.race = IF @ = "pending" THEN "abort" ELSE @]

\* Mutant of Cancel: the closure does not reject cancelPromise.
CancelWithoutReject(r, abortRejects) ==
    IF r.cancelRequested
    THEN r
    ELSE [r EXCEPT
            !.cancelRequested = TRUE,
            !.events = Append(@, Log(CancelLog)),
            !.abortCalls = IF r.conversion THEN @ + 1 ELSE @,
            !.engineOps = IF r.conversion THEN Append(@, "cancel") ELSE @,
            !.abortFailed = IF r.conversion THEN abortRejects ELSE @]

\* The cancel closure of a call.  abortRejects: whether the promise returned
\* by conversion.cancel() rejects (the rejection is caught and dropped).
Cancel(r, abortRejects) ==
    IF r.cancelRequested
    THEN r
    ELSE [r EXCEPT
            !.cancelRequested = TRUE,
            !.events = Append(@, Log(CancelLog)),
            !.abortCalls = IF r.conversion THEN @ + 1 ELSE @,
            !.engineOps = IF r.conversion THEN Append(@, "cancel") ELSE @,
            !.abortFailed = IF r.conversion THEN abortRejects ELSE @,
            !.cancelPromise = "rejected",
            !.race = IF @ = "pending" THEN "abort" ELSE @]

\* ------------------------------------------------- capability registry
\* AUDIO_FORMAT_SPECS[f].codec.
Codec(f) ==
    CASE f = "mp3" -> "mp3"
      [] f = "wav" -> "pcm-s16"
      [] f = "ogg" -> "opus"
      [] f = "aac" -> "aac"
      [] f = "flac" -> "flac"

\* Mutant of ReachesProbe: the supportChecks.has() test is missing.
ReachesProbeWithoutCache(f) ==
    /\ f \in CatalogIds
    /\ f \notin AlwaysAvailable

\* Mutant of ReachesProbe: the alwaysAvailable test is missing.
ReachesProbeIgnoringFlag(f) ==
    /\ f \in CatalogIds
    /\ supportChecks[f] = "absent"

\* isFormatSupported(formatId): none of its three early returns is taken, so
\* checkCodecSupport(spec.codec) is called and its promise is cached.
ReachesProbe(f) ==
    /\ f \in CatalogIds
    /\ f \notin AlwaysAvailable
    /\ supportChecks[f] = "absent"

\* isFormatSupported(formatId), the synchronous part: the cache after the call.
\* checkCodecSupport answers true for pcm-s16 without a probe; for the other
\* codecs its promise is pending until canEncodeAudio settles.
IsFormatSupportedCache(f) ==
    IF ReachesProbe(f)
    THEN [supportChecks EXCEPT ![f] = IF Codec(f) = "pcm-s16" THEN "true" ELSE "pending"]
    ELSE supportChecks

\* isFormatSupported(formatId), what it does to the engine: canEncodeAudio is
\* invoked when checkCodecSupport is reached with a codec other than pcm-s16.
ProbesAfterIsFormatSupported(f) ==
    IF ReachesProbe(f) /\ Codec(f) # "pcm-s16"
    THEN [probes EXCEPT ![f].calls = @ + 1]
    ELSE probes

\* isFormatSupported(formatId), the promise it returns: "true" | "false", or
\* "pending" while the probe is unresolved.
IsFormatSupportedResult(f) ==
    IF f \notin CatalogIds THEN "false"
    ELSE IF f \in AlwaysAvailable THEN "true"
    ELSE supportChecks[f]

\* Mutant of CheckCodecSupport: a throwing probe is passed on.
CheckCodecSupportPropagating(probe) == probe

\* checkCodecSupport(...).catch(() => false): canEncodeAudio resolves "true"
\* or "false" or "throws"; a throw is caught and becomes false.
CheckCodecSupport(probe) == IF probe = "throws" THEN "false" ELSE probe

\* The capability probe of format f settles.
ProbeSettles(f, probe) ==
    /\ supportChecks[f] = "pending"
    /\ supportChecks' = [supportChecks EXCEPT ![f] = CheckCodecSupport(probe)]
    /\ probes' = [probes EXCEPT ![f].result = probe]
    /\ UNCHANGED <<activeCancel, call>>
    /\ lastOp' = "other"
    /\ UNCHANGED <<queries, listing>>
    /\ Relay

\* Formats asked for by direct isFormatSupported() callers: an always
\* available one, a probed one and one that is not in the catalog.
QueryFormats == {"wav", "ogg", "bogus"}

\* isFormatSupported(f) is invoked by an outside caller, which then waits on
\* the returned promise.  Invocations are numbered in the order they are made.
QueryEntry(q, f) ==
    /\ queries[q].pc = "idle"
    /\ q > 1 => queries[q - 1].pc # "idle"
    /\ queries' = [queries EXCEPT ![q] = [@ EXCEPT !.pc = "waiting", !.formatId = f]]
    /\ supportChecks' = IsFormatSupportedCache(f)
    /\ probes' = ProbesAfterIsFormatSupported(f)
    /\ lastOp' = "other"
    /\ UNCHANGED <<activeCancel, call, listing>>
    /\ Relay

\* The promise returned to an outside caller has resolved and the caller
\* resumes with its value.
QueryResumes(q) ==
    /\ queries[q].pc = "waiting"
    /\ IsFormatSupportedResult(queries[q].formatId) \in {"true", "false"}
    /\ queries' = [queries EXCEPT ![q] =
          [@ EXCEPT !.pc = "done", !.result = IsFormatSupportedResult(queries[q].formatId)]]
    /\ lastOp' = "other"
    /\ UNCHANGED <<activeCancel, supportChecks, call, probes, listing>>
    /\ Relay

\* AUDIO_OUTPUT_OPTIONS: one option per entry of AUDIO_FORMAT_SPECS, in
\* Object.entries order.
AUDIO_OUTPUT_OPTIONS == FormatIds

\* Mutant of OptionReason: the reason is filled in whatever the support.
OptionReasonAlways(f, supported) ==
    IF UnsupportedMessage(f) # "undefined" THEN UnsupportedMessage(f)
    ELSE "Not supported by this browser yet."

\* reason: supported ? undefined : spec.unsupportedMessage ?? 'Not supported
\* by this browser yet.'
OptionReason(f, supported) ==
    IF supported = "true" THEN "undefined"
    ELSE IF UnsupportedMessage(f) # "undefined" THEN UnsupportedMessage(f)
    ELSE "Not supported by this browser yet."

\* options.push({...option, supported, reason}).
PushOption(options, f, supported) ==
    Append(options, [id |-> f, supported |-> supported, reason |-> OptionReason(f, supported)])

\* getFormatOptionsWithSupport() is invoked: the loop reaches its first
\* await this.isFormatSupported(option.id).
ListingEntry ==
    /\ listing.pc = "idle"
    /\ listing' = [listing EXCEPT !.pc = "awaiting", !.index = 1]
    /\ supportChecks' = IsFormatSupportedCache(AUDIO_OUTPUT_OPTIONS[1])
    /\ probes' = ProbesAfterIsFormatSupported(AUDIO_OUTPUT_OPTIONS[1])
    /\ lastOp' = "other"
    /\ UNCHANGED <<activeCancel, call, queries>>
    /\ Relay

\* await this.isFormatSupported(option.id) resumes: the option is pushed and
\* the loop either reaches the await of the next option or returns.
ListingResumes ==
    /\ listing.pc = "awaiting"
    /\ IsFormatSupportedResult(AUDIO_OUTPUT_OPTIONS[listing.index]) \in {"true", "false"}
    /\ IF listing.index < Len(AUDIO_OUTPUT_OPTIONS)
       THEN /\ listing' = [listing EXCEPT
                  !.index = @ + 1,
                  !.options = PushOption(@, AUDIO_OUTPUT_OPTIONS[listing.index],
                                  IsFormatSupportedResult(AUDIO_OUTPUT_OPTIONS[listing.index]))]
            /\ supportChecks' = IsFormatSupportedCache(AUDIO_OUTPUT_OPTIONS[listing.index + 1])
            /\ probes' = ProbesAfterIsFormatSupported(AUDIO_OUTPUT_OPTIONS[listing.index + 1])
       ELSE /\ listing' = [listing EXCEPT
                  !.pc = "done",
                  !.options = PushOption(@, AUDIO_OUTPUT_OPTIONS[listing.index],
                                  IsFormatSupportedResult(AUDIO_OUTPUT_OPTIONS[listing.index]))]
            /\ UNCHANGED <<supportChecks, probes>>
    /\ lastOp' = "other"
    /\ UNCHANGED <<activeCancel, call, queries>>
    /\ Relay

\* ------------------------------------------------------------ convert()
\* if (this.activeCancel): the presence check on entry.
Busy == activeCancel # NoCall

\* Mutant of RejectBusy: the Busy check placed inside the try block, so that
\* the finally block clears the marker of the conversion in flight.
RejectBusyInsideTry(c, f) ==
    /\ call' = [call EXCEPT ![c] = Settle([@ EXCEPT !.formatId = f], "Busy")]
    /\ activeCancel' = NoCall
    /\ UNCHANGED <<supportChecks, probes>>

\* throw new Error('Another conversion is already in progress.'): the throw
\* is outside the try, so the finally block does not run.
RejectBusy(c, f) ==
    /\ call' = [call EXCEPT ![c] = Settle([@ EXCEPT !.formatId = f], "Busy")]
    /\ UNCHANGED <<activeCancel, supportChecks, probes>>

\* `Unsupported output format: ${formatId}`: the id has no catalog entry.
UnknownFormatMessage(f) == "Unsupported output format: " \o f

\* spec.unsupportedMessage ?? `${spec.label} encoding is not supported in this
\* browser yet. Try MP3, WAV, or OGG instead.`
NotSupportedMessage(f) ==
    IF UnsupportedMessage(f) # "undefined" THEN UnsupportedMessage(f)
    ELSE Label(f) \o " encoding is not supported in this browser yet. Try MP3, WAV, or OGG instead."

\* convert(file, formatId, callbacks) is invoked: the code up to the first
\* await (await this.isFormatSupported(formatId)).  Calls are numbered in
\* the order they are made.
ConvertInvoked(c, f) ==
    /\ call[c].pc = "idle"
    /\ c > 1 => call[c - 1].pc # "idle"
    /\ UNCHANGED <<queries, listing>>
    /\ IF Busy
       THEN RejectBusy(c, f)
       ELSE IF f \notin CatalogIds
       THEN /\ call' = [call EXCEPT
                  ![c] = Fail([@ EXCEPT !.formatId = f], "UnsupportedFormat",
                              UnknownFormatMessage(f))]
            /\ UNCHANGED <<activeCancel, supportChecks, probes>>
       ELSE /\ call' = [call EXCEPT ![c] = [@ EXCEPT !.formatId = f, !.pc = "probing"]]
            /\ supportChecks' = IsFormatSupportedCache(f)
            /\ probes' = ProbesAfterIsFormatSupported(f)
            /\ UNCHANGED activeCancel

\* convert() is invoked by a caller with callbacks of its own.
ConvertEntry(c, f) ==
    /\ ConvertInvoked(c, f)
    /\ lastOp' = "other"
    /\ Relay

\* Mutant of AfterSupportCheck: the first log line is emitted before the
\* answer of the registry is looked at.
AfterSupportCheckLogFirst(c) ==
    /\ call[c].pc = "probing"
    /\ IsFormatSupportedResult(call[c].formatId) \in {"true", "false"}
    /\ call' = [call EXCEPT ![c] =
          IF IsFormatSupportedResult(call[c].formatId) = "false"
          THEN Fail(Emit(@, Log(LoadingMemoryLog)), "UnsupportedFormat",
                    NotSupportedMessage(call[c].formatId))
          ELSE [Emit(@, Log(LoadingMemoryLog))
                  EXCEPT !.pc = "loading"]]
    /\ lastOp' = "other"
    /\ UNCHANGED <<probes, queries, listing>>
    /\ UNCHANGED <<activeCancel, supportChecks>>
    /\ Relay

\* await this.isFormatSupported(formatId) resumes: unsupported formats throw,
\* otherwise the first log line is emitted and file.arrayBuffer() is awaited.
AfterSupportCheck(c) ==
    /\ call[c].pc = "probing"
    /\ IsFormatSupportedResult(call[c].formatId) \in {"true", "false"}
    /\ call' = [call EXCEPT ![c] =
          IF IsFormatSupportedResult(call[c].formatId) = "false"
          THEN Fail(@, "UnsupportedFormat", NotSupportedMessage(call[c].formatId))
          ELSE [Emit(@, Log(LoadingMemoryLog))
                  EXCEPT !.pc = "loading"]]
    /\ lastOp' = "other"
    /\ UNCHANGED <<probes, queries, listing>>
    /\ UNCHANGED <<activeCancel, supportChecks>>
    /\ Relay

\* await file.arrayBuffer() resumes.  On rejection the call fails (outside the
\* try: no finally).  Otherwise the Input, the target and the cancel closure
\* are created, this.activeCancel = cancel, progress 0 and the second log line
\* are emitted and input.getFormat() is awaited.
AfterArrayBuffer(c, loaded) ==
    /\ call[c].pc = "loading"
    /\ IF loaded
       THEN /\ call' = [call EXCEPT ![c] =
                  [Emit(Emit(@, Progress(0)), Log(LoadingFileLog))
                     EXCEPT !.inputState = "live", !.pc = "detecting",
                            !.engineOps = Append(@, "getFormat")]]
            /\ activeCancel' = c
       ELSE /\ call' = [call EXCEPT ![c] = Settle(@, "LoadFailed")]
            /\ UNCHANGED activeCancel
    /\ lastOp' = "other"
    /\ UNCHANGED <<probes, queries, listing>>
    /\ UNCHANGED supportChecks
    /\ Relay

\* The message of the error the engine's input.getFormat() rejects with
\* when no container format matches the file.
UnrecognizedFormatError == "Input has an unsupported or unrecognizable format."

\* Messages of the errors input.getFormat() may reject with: the one above,
\* the same in another capitalisation and wording, and one without the phrase.
DetectionErrors ==
    {UnrecognizedFormatError,
     "Unsupported Or Unrecognizable Format",
     "Input is not a recognized media container."}

\* The message used where the wording of the engine's error plays no part.
SampleDetectionErrors == {UnrecognizedFormatError}

\* Mutant of AfterGetFormat: the catch block logs the header bytes and does
\* not rethrow.
AfterGetFormatSwallowed(c, detected, text) ==
    /\ call[c].pc = "detecting"
    /\ call' = [call EXCEPT ![c] =
          [Emit(@, Log(IF detected THEN DetectedLog ELSE HeaderDumpLog))
             EXCEPT !.pc = "planning", !.engineOps = Append(@, "init")]]
    /\ lastOp' = "other"
    /\ UNCHANGED <<activeCancel, supportChecks, probes, queries, listing>>
    /\ Relay

\* await input.getFormat() resumes: with the format, or with the engine's
\* error, whose message is text; the catch block logs the header bytes and
\* rethrows that error.
AfterGetFormat(c, detected, text) ==
    /\ call[c].pc = "detecting"
    /\ IF detected
       THEN /\ call' = [call EXCEPT ![c] =
                  [Emit(@, Log(DetectedLog))
                     EXCEPT !.pc = "planning", !.engineOps = Append(@, "init")]]
            /\ UNCHANGED activeCancel
       ELSE /\ call' = [call EXCEPT ![c] =
                  DisposeInput(Fail(
                      Emit(@, Log(HeaderDumpLog)),
                      "DetectionFailure", text))]
            /\ activeCancel' = MarkerAfterFinally
    /\ lastOp' = "other"
    /\ UNCHANGED <<probes, queries, listing>>
    /\ UNCHANGED supportChecks
    /\ Relay

\* ------------------------------------------------ invalid plan messages
\* track.type of a discarded track.
TrackKinds == {"audio", "video"}

\* DiscardedTrack['reason'], and a code the mapping does not know.
DiscardReasons ==
    {"discarded_by_user", "max_track_count_reached", "max_track_count_of_type_reached",
     "unknown_source_codec", "undecodable_source_codec", "no_encodable_target_codec",
     "some_other_code"}

DiscardedTrack == [type : TrackKinds, reason : DiscardReasons]

\* The values of conversion.discardedTracks with at most MaxTracks entries.
TrackLists == UNION {[1..n -> DiscardedTrack] : n \in 0..MaxTracks}

\* Mutant of HumanizeReason: a code missing from the mapping is passed on
\* as it is.
HumanizeReasonWithoutFallback(reason) ==
    CASE reason = "discarded_by_user" -> "discarded by configuration"
      [] reason = "max_track_count_reached" -> "output format limit reached"
      [] reason = "max_track_count_of_type_reached" -> "too many tracks of this type for the output format"
      [] reason = "unknown_source_codec" -> "unknown source codec"
      [] reason = "undecodable_source_codec" -> "source codec not decodable in this browser"
      [] reason = "no_encodable_target_codec" -> "no compatible encoder available"
      [] OTHER -> reason

\* humanizeReason(reason): mapping[reason] ?? 'unsupported track'.
HumanizeReason(reason) ==
    CASE reason = "discarded_by_user" -> "discarded by configuration"
      [] reason = "max_track_count_reached" -> "output format limit reached"
      [] reason = "max_track_count_of_type_reached" -> "too many tracks of this type for the output format"
      [] reason = "unknown_source_codec" -> "unknown source codec"
      [] reason = "undecodable_source_codec" -> "source codec not decodable in this browser"
      [] reason = "no_encodable_target_codec" -> "no compatible encoder available"
      [] OTHER -> "unsupported track"

\* `${track.type} track discarded (${this.humanizeReason(reason)})`
TrackDetail(t) == t.type \o " track discarded (" \o HumanizeReason(t.reason) \o ")"

\* Array.prototype.join(sep) on an array of strings.
RECURSIVE Join(_, _)
Join(parts, sep) ==
    IF parts = <<>> THEN ""
    ELSE IF Len(parts) = 1 THEN parts[1]
    ELSE parts[1] \o sep \o Join(Tail(parts), sep)

\* Mutant of DescribeInvalidConversion: only the first discarded track is
\* reported.
DescribeFirstTrackOnly(tracks) ==
    IF Len(tracks) = 0 THEN "Unable to convert this file with Mediabunny."
    ELSE "Unable to convert this file: " \o TrackDetail(tracks[1]) \o "."

\* describeInvalidConversion(conversion).
DescribeInvalidConversion(tracks) ==
    IF Len(tracks) = 0 THEN "Unable to convert this file with Mediabunny."
    ELSE "Unable to convert this file: "
           \o Join([i \in 1..Len(tracks) |-> TrackDetail(tracks[i])], "; ") \o "."

\* The message thrown for a plan that is not valid.
InvalidPlanMessage(tracks) ==
    IF Len(tracks) = 0
    THEN "Mediabunny rejected the file: unrecognized or unsupported audio/video tracks."
    ELSE DescribeInvalidConversion(tracks)

\* The discarded tracks of the invalid plans tried where the plan's detail
\* does not matter: none, and a video and an audio track.
SampleTrackLists ==
    {<<>>, <<[type |-> "video", reason |-> "discarded_by_user"],
             [type |-> "audio", reason |-> "unknown_source_codec"]>>}

\* if (cancelRequested) { cancel(); } before the engine is started: the
\* closure is entered with cancelRequested already true.
CancelBeforeExecute(r, abortRejects) ==
    IF r.cancelRequested THEN Cancel(r, abortRejects) ELSE r

\* The outcomes of conversion.cancel() to try where the engine is about to be
\* started for r: both where that statement reaches conversion.cancel(), one
\* where it does not.
AbortOutcomesBeforeExecute(r) ==
    IF CancelBeforeExecute([r EXCEPT !.conversion = TRUE], TRUE)
         = CancelBeforeExecute([r EXCEPT !.conversion = TRUE], FALSE)
    THEN {FALSE}
    ELSE BOOLEAN

\* Promise.race([conversion.execute(), cancelPromise]): execute() is invoked
\* when the array is built; if cancelPromise is already rejected the race is
\* decided at once.
StartExecute(r) ==
    [r EXCEPT !.execState = "running",
              !.engineOps = Append(@, "execute"),
              !.race = IF r.cancelPromise = "rejected" THEN "abort" ELSE "pending"]

\* await Conversion.init(...) resumes.  plan: "rejects" (init threw),
\* "invalidNoTracks", "invalidDiscarded" (isValid false, without and with
\* discarded tracks) or "valid"; tracks: the discarded tracks of an invalid
\* plan.
AfterConversionInit(c, plan, tracks, abortRejects) ==
    /\ call[c].pc = "planning"
    /\ (plan = "invalidDiscarded") = (tracks # <<>>)
    /\ abortRejects \in AbortOutcomesBeforeExecute(call[c])
    /\ IF plan = "valid"
       THEN /\ call' = [call EXCEPT ![c] =
                  [StartExecute(
                      Emit(CancelBeforeExecute([@ EXCEPT !.conversion = TRUE, !.isValid = TRUE],
                                               abortRejects),
                           Log(TranscodeLog)))
                     EXCEPT !.pc = "executing"]]
            /\ UNCHANGED activeCancel
       ELSE /\ call' = [call EXCEPT ![c] =
                  IF plan = "rejects"
                  THEN DisposeInput(Settle(@, "InitFailed"))
                  ELSE DisposeInput(Fail([@ EXCEPT !.conversion = TRUE, !.discardedTracks = tracks],
                                         "PlanInvalid", InvalidPlanMessage(tracks)))]
            /\ activeCancel' = MarkerAfterFinally
    /\ lastOp' = "other"
    /\ UNCHANGED <<probes, queries, listing>>
    /\ UNCHANGED supportChecks
    /\ Relay

\* Number of times the engine operation o is in ops.
OpCount(ops, o) == Cardinality({i \in 1..Len(ops) : ops[i] = o})

\* Mutant of ExecuteSettles: a rejected execute() is started again, once.
ExecuteSettlesWithRetry(c, result) ==
    /\ call[c].execState = "running"
    /\ call' = [call EXCEPT ![c] =
          IF result = "rejected" /\ OpCount(call[c].engineOps, "execute") < 2
          THEN [@ EXCEPT !.engineOps = Append(@, "execute")]
          ELSE IF result = "rejected"
          THEN [@ EXCEPT !.execState = "rejected",
                         !.race = IF @ = "pending" THEN "err" ELSE @]
          ELSE [@ EXCEPT !.execState = "resolved",
                         !.targetBuffer = IF call[c].race = "pending" THEN result ELSE @,
                         !.race = IF @ = "pending" THEN "ok" ELSE @]]
    /\ lastOp' = "other"
    /\ UNCHANGED <<activeCancel, supportChecks, probes, queries, listing>>
    /\ Relay

\* The results of conversion.execute() to try for r: what the target holds
\* is an input only where the race is still open and the buffer will be read.
ExecuteOutcomes(r) ==
    IF r.race = "pending"
    THEN {"bytes", "empty", "null", "rejected"}
    ELSE {"bytes", "rejected"}

\* The promise of conversion.execute() settles: "bytes", "empty" (a buffer of
\* length 0) or "null" (no buffer) on success, "rejected" on failure.  The
\* race takes the result only if cancelPromise has not decided it; a result
\* that arrives after the race was decided is dropped (nothing reads the
\* target any more).
ExecuteSettles(c, result) ==
    /\ call[c].execState = "running"
    /\ result \in ExecuteOutcomes(call[c])
    /\ call' = [call EXCEPT ![c] =
          IF result = "rejected"
          THEN [@ EXCEPT !.execState = "rejected",
                         !.race = IF @ = "pending" THEN "err" ELSE @]
          ELSE [@ EXCEPT !.execState = "resolved",
                         !.targetBuffer = IF call[c].race = "pending" THEN result ELSE @,
                         !.race = IF @ = "pending" THEN "ok" ELSE @]]
    /\ lastOp' = "other"
    /\ UNCHANGED <<probes, queries, listing>>
    /\ UNCHANGED <<activeCancel, supportChecks>>
    /\ Relay

\* if (!buffer): the test applied to target.buffer.
BufferMissing(b) == b = "null"

\* Mutant of Finalize: the completion log line is emitted before the final
\* progress value.
FinalizeLogBeforeProgress(r) ==
    IF r.cancelRequested THEN Settle(r, "Cancelled")
    ELSE IF BufferMissing(r.targetBuffer) THEN Settle(r, "EmptyOutput")
    ELSE Settle([Emit(Emit(r, Log(FinishedLog)), Progress(10))
                   EXCEPT !.blob = r.targetBuffer, !.targetBuffer = "null"],
                "Completed")

\* The code after a successful race: the cancel check, the buffer check, the
\* blob, the completion events and the result.
Finalize(r) ==
    IF r.cancelRequested THEN Settle(r, "Cancelled")
    ELSE IF BufferMissing(r.targetBuffer) THEN Settle(r, "EmptyOutput")
    ELSE Settle([Emit(Emit(r, Progress(10)), Log(FinishedLog))
                   EXCEPT !.blob = r.targetBuffer, !.targetBuffer = "null"],
                "Completed")

\* How the call continues once the race is decided.
RaceContinuation(r) ==
    IF r.race = "abort" THEN Settle(r, "Cancelled")
    ELSE IF r.race = "err" THEN Settle(r, "ExecFailed")
    ELSE Finalize(r)

\* await Promise.race(...) resumes, the rest of the try block runs, then the
\* finally block.
AfterRace(c) ==
    /\ call[c].pc = "executing"
    /\ call[c].race \in {"ok", "err", "abort"}
    /\ call' = [call EXCEPT ![c] = DisposeInput(RaceContinuation(@))]
    /\ activeCancel' = MarkerAfterFinally
    /\ lastOp' = "other"
    /\ UNCHANGED <<probes, queries, listing>>
    /\ UNCHANGED supportChecks
    /\ Relay

\* ----------------------------------------------------- cancelConversion()
\* this.activeCancel?.() as it acts on one call: the closure runs only for
\* the call the marker refers to.
CancelTarget(r, isActive, abortRejects) ==
    IF isActive THEN Cancel(r, abortRejects) ELSE r

\* The outcomes of conversion.cancel() to try where cancelConversion() is
\* invoked: both where the closure reaches conversion?.cancel(), one where no
\* closure runs or it returns before that call.
AbortOutcomes ==
    IF \A c \in Calls : CancelTarget(call[c], activeCancel = c, TRUE)
                          = CancelTarget(call[c], activeCancel = c, FALSE)
    THEN {FALSE}
    ELSE BOOLEAN

CancelInvoked(abortRejects) ==
    /\ call' = [c \in Calls |-> CancelTarget(call[c], activeCancel = c, abortRejects)]
    /\ UNCHANGED <<probes, queries, listing>>
    /\ UNCHANGED <<activeCancel, supportChecks>>

\* cancelConversion() is invoked by a caller of the service.
CancelConversion(abortRejects) ==
    /\ abortRejects \in AbortOutcomes
    /\ CancelInvoked(abortRejects)
    /\ lastOp' = "cancelConversion"
    /\ Relay

\* --------------------------------------------------- progress reporting
\* The engine progress values relayed so far by a call: its progress events
\* after the 'Transcoding' log line (the final progress 1 is emitted only
\* once execute() has resolved, when the engine reports no more).
RECURSIVE Relayed(_, _)
Relayed(es, started) ==
    IF es = <<>> THEN 0
    ELSE IF Head(es).kind = "log"
    THEN Relayed(Tail(es), started \/ Head(es).msg = TranscodeLog)
    ELSE (IF started THEN 1 ELSE 0) + Relayed(Tail(es), started)

\* Mutant of OnProgress: the ratio is relayed as the engine gave it.
OnProgressUnclamped(r, p) ==
    IF r.cancelRequested THEN r ELSE Emit(r, Progress(p))

\* The body of the conversion.onProgress handler.
OnProgress(r, p) ==
    IF r.cancelRequested THEN r ELSE Emit(r, Progress(Clamp(p)))

\* conversion.onProgress: the engine reports a raw ratio while execute() runs.
EngineProgress(c, p) ==
    /\ call[c].execState = "running"
    /\ Len(call[c].engineReports) < MaxProgress
    /\ call' = [call EXCEPT ![c] = [OnProgress(@, p) EXCEPT !.engineReports = Append(@, p)]]
    /\ lastOp' = "other"
    /\ UNCHANGED <<probes, queries, listing>>
    /\ UNCHANGED <<activeCancel, supportChecks>>
    /\ Relay

\* ------------------------------------------------------ output file name
\* Strings are sequences of one-character strings.
LowerCaseLetters ==
    <<"a", "b", "c", "d", "e", "f", "g", "h", "i", "j", "k", "l", "m",
      "n", "o", "p", "q", "r", "s", "t", "u", "v", "w", "x", "y", "z">>
UpperCaseLetters ==
    <<"A", "B", "C", "D", "E", "F", "G", "H", "I", "J", "K", "L", "M",
      "N", "O", "P", "Q", "R", "S", "T", "U", "V", "W", "X", "Y", "Z">>
Digits == {"0", "1", "2", "3", "4", "5", "6", "7", "8", "9"}

\* The character class [a-zA-Z0-9-_].
WordChars ==
    {LowerCaseLetters[i] : i \in 1..26} \cup {UpperCaseLetters[i] : i \in 1..26}
        \cup Digits \cup {"-", "_"}

\* AUDIO_FORMAT_SPECS[f].extension.
Extension(f) ==
    CASE f = "mp3" -> <<".", "m", "p", "3">>
      [] f = "wav" -> <<".", "w", "a", "v">>
      [] f = "ogg" -> <<".", "o", "g", "g">>
      [] f = "aac" -> <<".", "a", "a", "c">>
      [] f = "flac" -> <<".", "f", "l", "a", "c">>

\* s without its longest prefix of characters drawn from set.
RECURSIVE DropLeading(_, _)
DropLeading(s, set) ==
    IF s # <<>> /\ Head(s) \in set THEN DropLeading(Tail(s), set) ELSE s

\* s without its longest suffix of characters drawn from set.
RECURSIVE DropTrailing(_, _)
DropTrailing(s, set) ==
    IF s # <<>> /\ s[Len(s)] \in set
    THEN DropTrailing(SubSeq(s, 1, Len(s) - 1), set) ELSE s

\* .replace(/\.[^/.]+$/, ''): the last dot and what follows it are removed
\* when at least one character follows and none of them is a slash.
StripExtension(name) ==
    LET dots == {i \in 1..Len(name) : name[i] = "."}
        last == CHOOSE i \in dots : \A j \in dots : j <= i
    IN  IF dots # {} /\ last < Len(name)
           /\ \A j \in (last + 1)..Len(name) : name[j] # "/"
        THEN SubSeq(name, 1, last - 1)
        ELSE name

\* s from its first character of the class [a-zA-Z0-9-_] on.
RECURSIVE SkipOutside(_)
SkipOutside(s) ==
    IF s # <<>> /\ Head(s) \notin WordChars THEN SkipOutside(Tail(s)) ELSE s

\* .replace(/[^a-zA-Z0-9-_]+/g, '_').
RECURSIVE ReplaceOutsideRuns(_)
ReplaceOutsideRuns(s) ==
    IF s = <<>> THEN <<>>
    ELSE IF Head(s) \in WordChars THEN <<Head(s)>> \o ReplaceOutsideRuns(Tail(s))
    ELSE <<"_">> \o ReplaceOutsideRuns(SkipOutside(Tail(s)))

\* .replace(/_{2,}/g, '_').
RECURSIVE CollapseUnderscores(_)
CollapseUnderscores(s) ==
    IF s = <<>> THEN <<>>
    ELSE IF Head(s) = "_" THEN <<"_">> \o CollapseUnderscores(DropLeading(Tail(s), {"_"}))
    ELSE <<Head(s)>> \o CollapseUnderscores(Tail(s))

\* .replace(/^_+|_+$/g, '').
TrimUnderscores(s) == DropTrailing(DropLeading(s, {"_"}), {"_"})

\* .toLowerCase(), on the characters the earlier steps leave.
ToLowerCase(s) ==
    [i \in 1..Len(s) |->
        IF \E k \in 1..26 : UpperCaseLetters[k] = s[i]
        THEN LowerCaseLetters[CHOOSE k \in 1..26 : UpperCaseLetters[k] = s[i]]
        ELSE s[i]]

\* .slice(0, 64): the length the base name is cut to.
SliceLimit == 64

\* Mutant of SanitizeBaseName: the base is cut to length before the
\* underscores at its ends are removed.
SanitizeBaseNameCutFirst(name) ==
    ToLowerCase(TrimUnderscores(
        SubSeq(CollapseUnderscores(ReplaceOutsideRuns(StripExtension(name))), 1,
               Min(Len(CollapseUnderscores(ReplaceOutsideRuns(StripExtension(name)))),
                   SliceLimit))))

\* sanitizeBaseName(name).
SanitizeBaseName(name) ==
    SubSeq(ToLowerCase(TrimUnderscores(CollapseUnderscores(
               ReplaceOutsideRuns(StripExtension(name))))), 1,
           Min(Len(ToLowerCase(TrimUnderscores(CollapseUnderscores(
                       ReplaceOutsideRuns(StripExtension(name)))))), SliceLimit))

\* buildOutputName(originalName, extension): sanitizeBaseName(originalName)
\* || 'audio', then the extension.
BuildOutputName(originalName, extension) ==
    (IF SanitizeBaseName(originalName) = <<>>
     THEN <<"a", "u", "d", "i", "o">>
     ELSE SanitizeBaseName(originalName)) \o extension

\* Characters of the source file names tried: letters of both cases, the
\* two kept punctuation marks, a character outside the class and the dot.
NameAlphabet == {"a", "Z", "_", "-", "!", "."}

\* n times the letter "a".
Filler(n) == [i \in 1..n |-> "a"]

\* The free parts of the source file names.
ShortNames == UNION {[1..n -> NameAlphabet] : n \in 0..MaxNameLen}

\* 'My Clip (Final)!!.mov'
ClipName ==
    <<"M", "y", " ", "C", "l", "i", "p", " ", "(", "F", "i", "n", "a", "l", ")",
      "!", "!", ".", "m", "o", "v">>

\* '(!!).mov', a name without a character of the class before its extension.
SymbolName == <<"(", "!", "!", ")", ".", "m", "o", "v">>

\* The source file names handed to buildOutputName: short ones, long ones
\* and the two above.
SourceNames ==
    ShortNames \cup {Filler(FillerLength) \o s : s \in ShortNames}
        \cup {ClipName, SymbolName}

\* buildOutputName is about to be evaluated on a source name and the
\* extension of a catalog format.
NameInit ==
    /\ Constructed
    /\ ui = NoComponent
    /\ naming \in [originalName : SourceNames,
                   extension : {Extension("mp3"), Extension("flac")},
                   fileName : {"none"}]

\* fileName: this.buildOutputName(file.name, spec.extension).
BuildName ==
    /\ naming.fileName = "none"
    /\ naming' = [naming EXCEPT
          !.fileName = BuildOutputName(naming.originalName, naming.extension)]
    /\ UNCHANGED <<activeCancel, supportChecks, call, lastOp, probes, queries, listing, ui>>

\* ------------------------------------------- component event handlers
\* The files the user selects: two media files.
FileA == [name |-> <<"A", ".", "m", "p", "4">>, text |-> "A.mp4"]
FileB == [name |-> <<"b", ".", "m", "o", "v">>, text |-> "b.mov"]
Files == {FileA, FileB}

\* The formats the user picks in the format selector.
UiFormats == {"mp3", "ogg"}

\* Number of lines a core hands to the onLog handler during one conversion.
MaxLogLines == 42

\* currentFormat: the option of the selected id, else the first option;
\* "undefined" while there are no options.
CurrentFormat(u) ==
    IF \E i \in 1..Len(u.formatOptions) : u.formatOptions[i].id = u.selectedFormatId
    THEN u.formatOptions[CHOOSE i \in 1..Len(u.formatOptions) :
                             u.formatOptions[i].id = u.selectedFormatId]
    ELSE IF u.formatOptions # <<>> THEN u.formatOptions[1]
    ELSE [id |-> "undefined", supported |-> "undefined", reason |-> "undefined"]

\* formatLabel(): this.currentFormat()?.label ?? 'audio'.
FormatLabel(u) ==
    IF CurrentFormat(u).id = "undefined" THEN "audio" ELSE Label(CurrentFormat(u).id)

\* resetConversionState().
ResetConversionState(u) ==
    [u EXCEPT !.progress = 0, !.logs = <<>>, !.loggedSinceReset = <<>>,
              !.downloadUrl = NoUrl, !.outputFileName = <<>>, !.errorMessage = "null"]

\* The steps of the service that leave its state alone.
ServiceUntouched ==
    UNCHANGED <<activeCancel, supportChecks, call, probes, queries, listing>>

\* The continuation of an await of the pending convert() call, or of
\* convertSelected() itself, is queued as a microtask.  User events are
\* tasks: they are dispatched once the microtask queue has drained.
MicrotaskQueued ==
    /\ ui.call # NoCall
    /\ \/ call[ui.call].pc = "done"
       \/ /\ call[ui.call].pc = "probing"
          /\ IsFormatSupportedResult(call[ui.call].formatId) \in {"true", "false"}
       \/ /\ call[ui.call].pc = "executing"
          /\ call[ui.call].race \in {"ok", "err", "abort"}

\* refreshFormatOptions() resumes after await getFormatOptionsWithSupport()
\* (ngOnInit made the call).
UiOptionsLoaded ==
    /\ listing.pc = "done"
    /\ ~ui.optionsLoaded
    /\ LET options == listing.options
           loaded == [ui EXCEPT !.formatOptions = options, !.optionsLoaded = TRUE]
           hasSupportedSelection ==
               \E i \in 1..Len(options) :
                   options[i].id = ui.selectedFormatId /\ options[i].supported = "true"
           supported == {i \in 1..Len(options) : options[i].supported = "true"}
           fallback == options[CHOOSE i \in supported : \A j \in supported : i <= j]
       IN  ui' = IF hasSupportedSelection THEN loaded
                 ELSE IF supported # {}
                 THEN [loaded EXCEPT
                         !.selectedFormatId = fallback.id,
                         !.status = IF ui.selectedFile # NoFile
                                    THEN "Ready to convert \"" \o ui.selectedFile.text
                                             \o "\" to " \o Label(fallback.id) \o "."
                                    ELSE @]
                 ELSE [loaded EXCEPT
                         !.errorMessage = "No compatible audio encoders were detected in this browser.",
                         !.status = "Try a different browser - no local audio encoders available."]
    /\ lastOp' = "other"
    /\ ServiceUntouched
    /\ UNCHANGED naming

\* onFormatChange(event) with select.value = value, one of the options the
\* selector lists.
UiFormatChange(value) ==
    /\ ~MicrotaskQueued
    /\ \E i \in 1..Len(ui.formatOptions) : ui.formatOptions[i].id = value
    /\ ui.selectedFormatId # value
    /\ LET picked == ResetConversionState([ui EXCEPT !.selectedFormatId = value])
           ready == IF ui.selectedFile # NoFile
                    THEN [picked EXCEPT !.status =
                            "Ready to convert \"" \o ui.selectedFile.text \o "\" to "
                                \o Label(CurrentFormat(picked).id) \o "."]
                    ELSE picked
       IN  ui' = IF CurrentFormat(picked).supported = "false"
                 THEN [ready EXCEPT !.errorMessage = CurrentFormat(picked).reason]
                 ELSE ready
    /\ lastOp' = "other"
    /\ ServiceUntouched
    /\ UNCHANGED naming

\* The component's cancelConversion() once isConverting() holds:
\* this.conversionService.cancelConversion(), then the status.
CancelClicked(abortRejects) ==
    /\ CancelInvoked(abortRejects)
    /\ lastOp' = "cancelConversion"

\* cancelConversion() of the component (the Cancel button).
UiCancel(abortRejects) ==
    /\ ~MicrotaskQueued
    /\ ui.isConverting
    /\ CancelClicked(abortRejects)
    /\ ui' = [AfterCallbacks EXCEPT !.status = "Cancelling conversion...",
                                    !.cancelAsked = TRUE]
    /\ UNCHANGED naming

\* handleIncomingFile(file) for a file isSupportedFile accepts (from
\* onFileSelected or onDrop): a running conversion is cancelled, the state
\* is reset and the file becomes the selected one.
UiSelectFile(file, abortRejects) ==
    /\ ~MicrotaskQueued
    /\ IF ui.isConverting
       THEN CancelClicked(abortRejects)
       ELSE /\ lastOp' = "other"
            /\ ServiceUntouched
    /\ ui' = [ResetConversionState(IF ui.isConverting THEN AfterCallbacks ELSE ui) EXCEPT
                !.cancelAsked = @ \/ ui.isConverting,
                !.selectedFile = file,
                !.status = "Ready to convert \"" \o file.text \o "\" to " \o FormatLabel(ui) \o ".",
                !.errorMessage = "null"]
    /\ UNCHANGED naming

\* clearSelection(): nothing while a conversion runs.
UiClearSelection ==
    /\ ~MicrotaskQueued
    /\ ~ui.isConverting
    /\ ui.selectedFile # NoFile
    /\ ui' = ResetConversionState(
                [ui EXCEPT !.selectedFile = NoFile,
                           !.status = "Drop a new file to start another conversion."])
    /\ lastOp' = "other"
    /\ ServiceUntouched
    /\ UNCHANGED naming

\* convertSelected() up to its await: the early returns, then the signals
\* are set and conversionService.convert(file, formatId, callbacks) runs up
\* to its first await.  c is the number of the convert() invocation made.
UiConvertSelected(c) ==
    /\ ~MicrotaskQueued
    /\ ~ui.isConverting
    /\ lastOp' = "other"
    /\ UNCHANGED naming
    /\ IF ~ui.optionsLoaded
       THEN /\ ui' = [ui EXCEPT !.errorMessage =
                       "Preparing available output formats. Try again in a second."]
            /\ ServiceUntouched
       ELSE IF ui.selectedFile = NoFile
       THEN /\ ui' = [ui EXCEPT !.errorMessage =
                       "Please choose a video file before starting the conversion."]
            /\ ServiceUntouched
       ELSE IF CurrentFormat(ui).supported = "false"
       THEN /\ ui' = [ui EXCEPT !.errorMessage = CurrentFormat(ui).reason]
            /\ ServiceUntouched
       ELSE /\ ConvertInvoked(c, ui.selectedFormatId)
            /\ ui' = [ui EXCEPT
                        !.isConverting = TRUE, !.errorMessage = "null", !.progress = 0,
                        !.status = "Preparing to convert to " \o Label(CurrentFormat(ui).id) \o "...",
                        !.logs = <<>>, !.logged = <<>>, !.loggedSinceReset = <<>>,
                        !.cancelAsked = FALSE,
                        !.call = c, !.file = ui.selectedFile,
                        !.formatId = ui.selectedFormatId,
                        !.formatLabel = Label(CurrentFormat(ui).id)]

\* The message of the Error the promise of a failed convert() call was
\* rejected with.  The errors of file.arrayBuffer(), Conversion.init() and
\* conversion.execute() are the environment's: one message stands for each.
ThrownMessage(r) ==
    CASE r.outcome = "Busy" -> "Another conversion is already in progress."
      [] r.outcome = "EmptyOutput" -> "Mediabunny did not return any audio bytes."
      [] r.outcome = "LoadFailed" -> "The file could not be read."
      [] r.outcome = "InitFailed" -> "Conversion could not be initialised."
      [] r.outcome = "ExecFailed" -> "Encoding failed."
      [] OTHER -> r.message

\* message.toLowerCase().includes('unsupported or unrecognizable format'),
\* decided for the messages of the model: of them the two detection errors
\* that carry the phrase, in either capitalisation.
IncludesUnrecognizable(message) ==
    message \in {UnrecognizedFormatError, "Unsupported Or Unrecognizable Format"}

\* The fixed message of the catch block.
NoStreamsMessage ==
    "We could not detect any supported audio/video streams in this file. Make sure you selected the actual media file and that the container is MP4, MOV, WebM, MKV, WAV, OGG, FLAC, MP3, or ADTS."

\* The catch block's message: the fixed one when the error's message
\* carries the phrase, else the error's message.
ShownMessage(message) ==
    IF IncludesUnrecognizable(message) THEN NoStreamsMessage ELSE message

\* setDownloadResult(result), result being what convert() returned for the
\* File it was given.
SetDownloadResult(u, r) ==
    [u EXCEPT !.outputFileName = BuildOutputName(u.file.name, Extension(u.formatId)),
              !.downloadUrl = [file |-> u.file, blob |-> r.blob]]

\* The locals of convertSelected() are gone once it has returned.
Returned(u) ==
    [u EXCEPT !.isConverting = FALSE, !.call = NoCall, !.file = NoFile,
              !.formatId = "none", !.formatLabel = "none"]

\* await this.conversionService.convert(...) resumes: the rest of the try
\* block or the catch block, then the finally block.
UiConvertSettled ==
    /\ ui.call # NoCall
    /\ call[ui.call].pc = "done"
    /\ ui' = Returned(
          IF call[ui.call].outcome = "Completed"
          THEN SetDownloadResult(
                   [ui EXCEPT !.status = ui.formatLabel \o " ready. Time to download!",
                              !.progress = 100],
                   call[ui.call])
          ELSE IF call[ui.call].outcome = "Cancelled"
          THEN [ui EXCEPT !.status = "Conversion cancelled."]
          ELSE [ui EXCEPT !.errorMessage = ShownMessage(ThrownMessage(call[ui.call])),
                          !.status = "Conversion failed."])
    /\ lastOp' = "other"
    /\ ServiceUntouched
    /\ UNCHANGED naming

\* A core hands one more line to the onLog callback of the pending call.
CoreLogs ==
    /\ ui.call # NoCall
    /\ call[ui.call].pc # "done"
    /\ Len(ui.logged) < MaxLogLines
    /\ call' = [call EXCEPT ![ui.call] =
                   Emit(@, Log("line " \o ToString(Len(ui.logged) + 1)))]
    /\ lastOp' = "other"
    /\ UNCHANGED <<activeCancel, supportChecks, probes, queries, listing>>
    /\ Relay

\* ------------------------------------------------------- specification
Next ==
    \/ \E c \in Calls, f \in RequestFormats : ConvertEntry(c, f)
    \/ \E f \in ProbedIds, probe \in {"true", "false", "throws"} : ProbeSettles(f, probe)
    \/ \E c \in Calls : AfterSupportCheck(c)
    \/ \E c \in Calls, loaded \in BOOLEAN : AfterArrayBuffer(c, loaded)
    \/ \E c \in Calls, detected \in BOOLEAN, text \in SampleDetectionErrors :
          AfterGetFormat(c, detected, text)
    \/ \E c \in Calls, plan \in {"rejects", "invalidNoTracks", "invalidDiscarded", "valid"},
          tracks \in SampleTrackLists, abortRejects \in BOOLEAN :
              AfterConversionInit(c, plan, tracks, abortRejects)
    \/ \E c \in Calls, result \in {"bytes", "empty", "null", "rejected"} : ExecuteSettles(c, result)
    \/ \E c \in Calls : AfterRace(c)
    \/ \E abortRejects \in BOOLEAN : CancelConversion(abortRejects)

\* Overlapping convert() and cancelConversion() calls against an engine that
\* reports no progress.
Spec == Init /\ [][Next]_vars

\* One convert() call against an engine that reports progress while it runs.
ProgressNext ==
    \/ \E f \in RequestFormats : ConvertEntry(1, f)
    \/ \E f \in ProbedIds, probe \in {"true", "false", "throws"} : ProbeSettles(f, probe)
    \/ AfterSupportCheck(1)
    \/ \E loaded \in BOOLEAN : AfterArrayBuffer(1, loaded)
    \/ \E detected \in BOOLEAN, text \in SampleDetectionErrors :
          AfterGetFormat(1, detected, text)
    \/ \E plan \in {"rejects", "invalidNoTracks", "invalidDiscarded", "valid"},
          tracks \in SampleTrackLists, abortRejects \in BOOLEAN :
              AfterConversionInit(1, plan, tracks, abortRejects)
    \/ \E p \in EngineRatios : EngineProgress(1, p)
    \/ \E result \in {"bytes", "empty", "null", "rejected"} : ExecuteSettles(1, result)
    \/ AfterRace(1)
    \/ \E abortRejects \in BOOLEAN : CancelConversion(abortRejects)

ProgressSpec == Init /\ [][ProgressNext]_vars

\* convert() call c resumes after one of its awaits.
Resume(c) ==
    \/ AfterSupportCheck(c)
    \/ \E loaded \in BOOLEAN : AfterArrayBuffer(c, loaded)
    \/ \E detected \in BOOLEAN, text \in SampleDetectionErrors :
          AfterGetFormat(c, detected, text)
    \/ \E plan \in {"rejects", "invalidNoTracks", "invalidDiscarded", "valid"},
          tracks \in SampleTrackLists, abortRejects \in BOOLEAN :
              AfterConversionInit(c, plan, tracks, abortRejects)
    \/ AfterRace(c)

\* One convert() call under the scheduling of the event loop: the capability
\* probe, file.arrayBuffer(), input.getFormat() and Conversion.init() settle
\* and the call is resumed after each await that has settled.  Nothing is
\* assumed of conversion.execute(), which may never settle.
LiveSpec ==
    /\ Init
    /\ [][ProgressNext]_vars
    /\ WF_vars(\E f \in ProbedIds, probe \in {"true", "false", "throws"} : ProbeSettles(f, probe))
    /\ WF_vars(Resume(1))

\* The capability registry under concurrent use: outside isFormatSupported()
\* callers, one getFormatOptionsWithSupport() call and one convert() call (up
\* to the point where it has its answer), all sharing the probe cache.
RegistryNext ==
    \/ \E q \in Queries, f \in QueryFormats : QueryEntry(q, f)
    \/ \E q \in Queries : QueryResumes(q)
    \/ ListingEntry
    \/ ListingResumes
    \/ \E f \in RequestFormats : ConvertEntry(1, f)
    \/ AfterSupportCheck(1)
    \/ \E f \in ProbedIds, probe \in {"true", "false", "throws"} : ProbeSettles(f, probe)

RegistrySpec == Init /\ [][RegistryNext]_vars

\* One convert() call up to the outcome of planning, over every list of
\* discarded tracks an invalid plan can carry.
PlanNext ==
    \/ \E f \in RequestFormats : ConvertEntry(1, f)
    \/ \E f \in ProbedIds, probe \in {"true", "false", "throws"} : ProbeSettles(f, probe)
    \/ AfterSupportCheck(1)
    \/ \E loaded \in BOOLEAN : AfterArrayBuffer(1, loaded)
    \/ \E detected \in BOOLEAN, text \in SampleDetectionErrors :
          AfterGetFormat(1, detected, text)
    \/ \E plan \in {"rejects", "invalidNoTracks", "invalidDiscarded", "valid"},
          tracks \in TrackLists, abortRejects \in BOOLEAN :
              AfterConversionInit(1, plan, tracks, abortRejects)
    \/ \E abortRejects \in BOOLEAN : CancelConversion(abortRejects)

PlanSpec == Init /\ [][PlanNext]_vars

\* The component on top of the service: ngOnInit loads the options, the
\* user selects files and formats, clears the selection, starts one
\* conversion and cancels it, and the convert() call runs against the engine.
UiNext ==
    \/ ListingEntry
    \/ ListingResumes
    \/ \E f \in ProbedIds, probe \in {"true", "false"} : ProbeSettles(f, probe)
    \/ UiOptionsLoaded
    \/ \E value \in UiFormats : UiFormatChange(value)
    \/ \E file \in Files, abortRejects \in BOOLEAN : UiSelectFile(file, abortRejects)
    \/ UiClearSelection
    \/ UiConvertSelected(1)
    \/ \E abortRejects \in BOOLEAN : UiCancel(abortRejects)
    \/ AfterSupportCheck(1)
    \/ \E loaded \in BOOLEAN : AfterArrayBuffer(1, loaded)
    \/ \E detected \in BOOLEAN, text \in DetectionErrors : AfterGetFormat(1, detected, text)
    \/ \E plan \in {"rejects", "invalidNoTracks", "invalidDiscarded", "valid"},
          tracks \in SampleTrackLists, abortRejects \in BOOLEAN :
              AfterConversionInit(1, plan, tracks, abortRejects)
    \/ \E result \in {"bytes", "empty", "null", "rejected"} : ExecuteSettles(1, result)
    \/ AfterRace(1)
    \/ UiConvertSettled

UiSpec == UiInit /\ [][UiNext]_vars

\* The component's log under a core that hands any number of lines (up to
\* MaxLogLines) to onLog while the conversion waits for its file to be read,
\* the user selecting files and formats meanwhile.
LogNext ==
    \/ ListingEntry
    \/ ListingResumes
    \/ \E f \in ProbedIds : ProbeSettles(f, "true")
    \/ UiOptionsLoaded
    \/ \E value \in UiFormats : UiFormatChange(value)
    \/ \E abortRejects \in BOOLEAN : UiSelectFile(FileA, abortRejects)
    \/ UiConvertSelected(1)
    \/ AfterSupportCheck(1)
    \/ CoreLogs

LogSpec == UiInit /\ [][LogNext]_vars

NameNext == BuildName

\* buildOutputName evaluated on every source name of SourceNames.
NameSpec == NameInit /\ [][NameNext]_vars

\* ==================================================== checked properties
\* The call has been made and its promise has not settled.
InFlight(c) == call[c].pc \notin {"idle", "done"}

\* The call is in one of the stages Loading .. Executing.
InStage(c) == call[c].pc \in {"loading", "detecting", "planning", "executing"}

\* The outcomes of a failure in Loading, FormatDetecting or PlanValidating.
EarlyFailures == {"LoadFailed", "DetectionFailure", "InitFailed", "PlanInvalid"}

\* Position of the first log line m in es, 0 if there is none.
LogIndex(es, m) ==
    IF \E i \in 1..Len(es) : es[i] = Log(m)
    THEN CHOOSE i \in 1..Len(es) : es[i] = Log(m) /\ \A j \in 1..(i - 1) : es[j] # Log(m)
    ELSE 0

\* Number of log lines m in es.
LogCount(es, m) == Cardinality({i \in 1..Len(es) : es[i] = Log(m)})

\* The cancel closure of the call ran before the Executing stage began.
CancelledBeforeExecuting(r) ==
    /\ r.cancelRequested
    /\ \/ LogIndex(r.events, TranscodeLog) = 0
       \/ LogIndex(r.events, CancelLog) < LogIndex(r.events, TranscodeLog)

\* The step is a cancelConversion() call.
CancelStep == lastOp' = "cancelConversion"

\* C1: at most one convert call is non-terminal at any time (a call that
\* starts while an earlier one has not settled is rejected as Busy, never run).
C1_SingleFlight ==
    Cardinality({c \in Calls : InFlight(c)}) <= 1

\* C2: a convert call rejected with Busy changes nothing but its own promise:
\* the marker, the probe cache and every other call (its input, its events,
\* its position, hence its eventual outcome) are left as they were, and the
\* rejected call emits no event, creates no input and starts no engine work.
C2_BusyRejectionHasNoEffect ==
    [][\A c \in Calls :
        (call[c].pc = "idle" /\ call'[c].outcome = "Busy") =>
            /\ activeCancel' = activeCancel
            /\ supportChecks' = supportChecks
            /\ \A d \in Calls \ {c} : call'[d] = call[d]
            /\ call'[c] = [call[c] EXCEPT !.pc = "done", !.outcome = "Busy",
                                          !.formatId = call'[c].formatId]]_vars

\* C2 witness: a call was rejected as Busy and the call that was in flight
\* went on to complete.
C2_Witness ==
    \E c, d \in Calls : call[c].outcome = "Busy" /\ call[d].outcome = "Completed"

\* C3: a call whose cancellation was requested before the Executing stage
\* began never has the engine's execute invoked, and ends Cancelled (unless a
\* stage before Executing fails).
C3_CancelBeforeExecuteSkipsEngine ==
    \A c \in Calls :
        CancelledBeforeExecuting(call[c]) =>
            /\ call[c].execState = "notInvoked"
            /\ call[c].pc = "done" => call[c].outcome \in {"Cancelled"} \cup EarlyFailures

\* C4: a cancelConversion() call made while a call is in Loading,
\* FormatDetecting or PlanValidating is recorded for that call, and a call
\* with a cancellation recorded before Executing never ends Completed: it
\* ends Cancelled unless one of those stages fails.
C4_EarlyCancelNeverLost ==
    /\ [][\A c \in Calls :
            (CancelStep /\ call[c].pc \in {"loading", "detecting", "planning"})
                => call'[c].cancelRequested]_vars
    /\ [](\A c \in Calls :
            (CancelledBeforeExecuting(call[c]) /\ call[c].pc = "done")
                => call[c].outcome \in {"Cancelled"} \cup EarlyFailures)

\* C5: a cancelConversion() call made while a call is in Executing with the
\* engine still running decides that call's race for the cancellation, and a
\* race decided for the cancellation ends Cancelled whatever the engine does
\* afterwards.
C5_CancelWinsRace ==
    /\ [][\A c \in Calls :
            (CancelStep /\ call[c].pc = "executing" /\ call[c].execState = "running")
                => call'[c].race = "abort"]_vars
    /\ [](\A c \in Calls :
            call[c].race = "abort" => call[c].outcome \in {"none", "Cancelled"})

\* C6: a cancelConversion() call made while the engine is executing for a call
\* leaves that call cancelled with the engine's abort invoked at least once;
\* the call then ends Cancelled with no result, also when the abort itself
\* fails.
C6_CancelWhileExecutingAborts ==
    /\ [][\A c \in Calls :
            (CancelStep /\ call[c].execState = "running")
                => /\ call'[c].cancelRequested
                   /\ call'[c].abortCalls >= 1
                   /\ call'[c].race = "abort"]_vars
    /\ [](\A c \in Calls :
            (call[c].race = "abort" /\ call[c].pc = "done")
                => call[c].outcome = "Cancelled" /\ call[c].blob = "none")

\* C7: cancelling a conversion again changes nothing: a cancelConversion()
\* call that reaches a call whose cancellation is already requested leaves
\* every call and the marker as they were, and no call ever has its engine
\* abort invoked, or its 'Cancel requested' line logged, more than once.
C7_CancelIdempotent ==
    /\ [][\A c \in Calls :
            (CancelStep /\ activeCancel = c /\ call[c].cancelRequested)
                => call' = call /\ activeCancel' = activeCancel]_vars
    /\ [](\A c \in Calls :
            /\ call[c].abortCalls <= 1
            /\ LogCount(call[c].events, CancelLog) <= 1
            /\ call[c].cancelRequested => LogCount(call[c].events, CancelLog) = 1)

\* C7 witness: cancelConversion() has just been called for a call that is in
\* flight and whose cancellation had been requested in an earlier stage (it
\* has logged something since its 'Cancel requested' line).
C7_Witness ==
    \E c \in Calls :
        /\ lastOp = "cancelConversion"
        /\ activeCancel = c
        /\ call[c].cancelRequested
        /\ call[c].events[Len(call[c].events)] # Log(CancelLog)

\* C8: a cancelConversion() call made while no conversion is in flight
\* changes nothing (no result altered, no event, no engine operation), and
\* every call sets the marker with its cancellation not requested.
C8_CancelWithoutConversionIsNoOp ==
    /\ [][(CancelStep /\ \A c \in Calls : ~InFlight(c))
            => call' = call /\ activeCancel' = activeCancel
               /\ supportChecks' = supportChecks]_vars
    /\ [][\A c \in Calls :
            (call[c].pc = "loading" /\ call'[c].pc = "detecting")
                => ~call'[c].cancelRequested /\ call'[c].cancelPromise = "pending"]_vars

\* C8 witness: cancelConversion() has just been called with no conversion in
\* flight, after a conversion completed; the completed call still ends with
\* its completion log line.
C8_Witness ==
    /\ call[1].outcome = "Completed"
    /\ call[1].events[Len(call[1].events)] = Log(FinishedLog)
    /\ lastOp = "cancelConversion"
    /\ \A c \in Calls : ~InFlight(c)

\* C9: when a call that reached Loading settles, whatever its outcome, the
\* marker is cleared and the call's input is not left live.
C9_CleanupOnSettle ==
    [][\A c \in Calls :
        (InStage(c) /\ call'[c].pc = "done")
            => activeCancel' = NoCall /\ call'[c].inputState # "live"]_vars

\* C10: a call completes only with a non-empty output, and a call that fails
\* with EmptyOutput has emitted neither the final progress 1 nor the
\* completion log line.
C10_EmptyOutputFails ==
    \A c \in Calls :
        /\ call[c].outcome = "Completed" => call[c].blob = "bytes"
        /\ call[c].outcome = "EmptyOutput" =>
              \A i \in 1..Len(call[c].events) :
                  call[c].events[i] \notin {Progress(10), Log(FinishedLog)}

\* The format asked for by the call is not in the catalog, or it is and its
\* probe has answered unsupported.
FormatRefused(c) ==
    \/ call[c].formatId \notin CatalogIds
    \/ /\ call[c].formatId \notin AlwaysAvailable
       /\ supportChecks[call[c].formatId] = "false"

\* C11: a convert call that passed the Busy check with a format that is absent
\* from the catalog, or probed unsupported, never gets past the support check:
\* it ends UnsupportedFormat, with the reason the registry lists for the
\* format (for an id outside the catalog, the message naming the id), and it
\* has emitted no event, created no engine input and never set the marker.
C11_UnsupportedFormatFailsFast ==
    \A c \in Calls :
        (call[c].pc # "idle" /\ call[c].outcome # "Busy" /\ FormatRefused(c)) =>
            /\ call[c].pc \in {"probing", "done"}
            /\ call[c].pc = "done" =>
                  /\ call[c].outcome = "UnsupportedFormat"
                  /\ call[c].message =
                        IF call[c].formatId \in CatalogIds
                        THEN OptionReason(call[c].formatId, "false")
                        ELSE "Unsupported output format: bogus"
            /\ call[c].events = <<>>
            /\ call[c].inputState = "none"
            /\ activeCancel # c

\* C11 witness: one call was refused for an id outside the catalog and
\* another for a catalog format whose probe answered unsupported.
C11_Witness ==
    \E c, d \in Calls :
        /\ call[c].outcome = "UnsupportedFormat" /\ call[c].formatId = "bogus"
        /\ call[d].outcome = "UnsupportedFormat" /\ call[d].formatId = "ogg"
        /\ supportChecks["ogg"] = "false"

\* The engine has just passed a ratio to the onProgress handler of call c.
EngineReported(c) == Len(call'[c].engineReports) = Len(call[c].engineReports) + 1

\* The ratio the engine has just passed to the handler of call c.
LastReport(c) == call'[c].engineReports[Len(call'[c].engineReports)]

\* min(max(p, 0), 1) in tenths, spelled out.
InUnitRange(p) == IF p < 0 THEN 0 ELSE IF p > 10 THEN 10 ELSE p

Accepted(c) ==
    \/ InStage(c)
    \/ call[c].pc = "done" /\ call[c].outcome \notin {"Busy", "UnsupportedFormat"}

\* The call's source file was read into memory.
Loaded(c) ==
    \/ call[c].pc \in {"detecting", "planning", "executing"}
    \/ call[c].pc = "done" /\ call[c].outcome \notin {"Busy", "UnsupportedFormat", "LoadFailed"}

\* The events of the call end with the final progress 1 and the completion line.
EndsWithCompletion(es) ==
    /\ Len(es) >= 2
    /\ es[Len(es) - 1] = Progress(10)
    /\ es[Len(es)] = Log(FinishedLog)

\* C13 as stated: every accepted call has emitted a log event before loading,
\* and by the time it settles a progress value of 0, its first progress
\* value; a Completed call's events end with progress 1 and the completion
\* line, and nothing is emitted after them.
C13_EveryAcceptedCallEmitsZero ==
    /\ [](\A c \in Calls :
            /\ Accepted(c) => Len(call[c].events) >= 1 /\ call[c].events[1].kind = "log"
            /\ (Accepted(c) /\ call[c].pc = "done") =>
                  /\ Len(call[c].events) >= 2
                  /\ call[c].events[2] = Progress(0)
            /\ call[c].outcome = "Completed" => EndsWithCompletion(call[c].events))
    /\ [][\A c \in Calls :
            call[c].outcome = "Completed" => call'[c].events = call[c].events]_vars

\* C13 amended: every accepted call has emitted a log event before loading;
\* every accepted call whose source file was read into memory has emitted a
\* progress value of 0 as its first progress value, before any engine
\* progress; a Completed call's events end with progress 1 and the completion
\* line, and nothing is emitted after them.
C13_ProgressBrackets ==
    /\ [](\A c \in Calls :
            /\ Accepted(c) => Len(call[c].events) >= 1 /\ call[c].events[1].kind = "log"
            /\ Loaded(c) =>
                  /\ Len(call[c].events) >= 2
                  /\ call[c].events[2] = Progress(0)
            /\ call[c].engineReports # <<>> => Loaded(c)
            /\ call[c].outcome = "Completed" => EndsWithCompletion(call[c].events))
    /\ [][\A c \in Calls :
            call[c].outcome = "Completed" => call'[c].events = call[c].events]_vars

\* C13 witness: a call completed after relaying engine progress, and a
\* cancelConversion() call was made after it.
C13_Witness ==
    \E c \in Calls :
        /\ call[c].outcome = "Completed"
        /\ Len(call[c].engineReports) = MaxProgress
        /\ Relayed(call[c].events, FALSE) = MaxProgress + 1
        /\ lastOp = "cancelConversion"

\* The answers callers have received for format f: from direct
\* isFormatSupported() calls, in the options of getFormatOptionsWithSupport()
\* and, for convert(), as its passing or failing the support check.
Observed(f) ==
    {queries[q].result : q \in {q \in Queries : queries[q].pc = "done" /\ queries[q].formatId = f}}
    \cup {listing.options[i].supported :
             i \in {i \in 1..Len(listing.options) : listing.options[i].id = f}}
    \cup {IF call[c].outcome = "UnsupportedFormat" THEN "false" ELSE "true" :
             c \in {c \in Calls : call[c].formatId = f /\ call[c].pc \notin {"idle", "probing"}
                                    /\ call[c].outcome # "Busy"}}

\* C14: for each format that is not always available the capability probe is
\* invoked at most once, however isFormatSupported, getFormatOptionsWithSupport
\* and convert calls interleave; a resolved cache entry never changes, and
\* every answer a caller has received for the format is the one boolean the
\* cache holds.
C14_ProbeAtMostOnce ==
    /\ [](\A f \in ProbedIds :
            /\ probes[f].calls <= 1
            /\ supportChecks[f] # "absent" => probes[f].calls = 1
            /\ Observed(f) \subseteq {supportChecks[f]} \cap {"true", "false"})
    /\ [][\A f \in ProbedIds :
            supportChecks[f] \in {"true", "false"} => supportChecks'[f] = supportChecks[f]]_vars

\* C14 witness: two direct callers, the listing and a convert call all asked
\* for OGG, one probe was made, and all of them have their answer.
C14_Witness ==
    /\ \A q \in 1..2 : queries[q].pc = "done" /\ queries[q].formatId = "ogg"
    /\ listing.pc = "done"
    /\ call[1].formatId = "ogg" /\ call[1].pc \notin {"idle", "probing"}
    /\ probes["ogg"].calls = 1

\* C15: MP3 and WAV are answered supported by isFormatSupported (to direct
\* callers and to the listing alike) without the probe ever being invoked for
\* them and without a cache entry being created.
C15_AlwaysAvailableSkipsProbe ==
    \A f \in {"mp3", "wav"} :
        /\ probes[f].calls = 0
        /\ supportChecks[f] = "absent"
        /\ Observed(f) \subseteq {"true"}

\* C15 witness: a direct caller and the listing both have their answer for
\* WAV, while the probe of a probed format answered unsupported.
C15_Witness ==
    /\ \E q \in Queries : queries[q].pc = "done" /\ queries[q].formatId = "wav"
                          /\ queries[q].result = "true"
    /\ Len(listing.options) >= 2
    /\ listing.options[1].supported = "true" /\ listing.options[2].supported = "true"
    /\ \E f \in ProbedIds : probes[f].result \in {"false", "throws"}

\* C16: a probe that throws is recorded as unsupported: the cache entry
\* becomes false, every caller of isFormatSupported and the listing get the
\* answer false (never a rejection), the listing still returns, and a convert
\* call for the format ends UnsupportedFormat with the catalog's message.
C16_ThrowingProbeIsUnsupported ==
    \A f \in ProbedIds :
        probes[f].result = "throws" =>
            /\ supportChecks[f] = "false"
            /\ Observed(f) \subseteq {"false"}
            /\ \A q \in Queries :
                  (queries[q].pc = "done" /\ queries[q].formatId = f) => queries[q].result = "false"
            /\ \A c \in Calls :
                  (call[c].formatId = f /\ call[c].pc = "done" /\ call[c].outcome # "Busy") =>
                      /\ call[c].outcome = "UnsupportedFormat"
                      /\ call[c].message = UnsupportedMessage(f)

\* C16 witness: the probe of OGG threw; a direct caller got false, the listing
\* returned with OGG unsupported and a convert call for OGG was refused.
C16_Witness ==
    /\ probes["ogg"].result = "throws"
    /\ \E q \in Queries : queries[q].pc = "done" /\ queries[q].formatId = "ogg"
    /\ listing.pc = "done" /\ listing.options[3].supported = "false"
    /\ call[1].formatId = "ogg" /\ call[1].outcome = "UnsupportedFormat"

\* The catalog order the listing is claimed to follow.
DeclarationOrder == <<"mp3", "wav", "ogg", "aac", "flac">>

\* C17: getFormatOptionsWithSupport builds its result in catalog declaration
\* order, one entry per format, asking isFormatSupported for an entry only
\* after the entries before it are answered; it returns the five entries,
\* each with the supported flag isFormatSupported gives for its id and with a
\* reason exactly when the flag is false.
C17_ListingInCatalogOrder ==
    /\ Len(listing.options) <= 5
    /\ listing.pc = "done" => Len(listing.options) = 5
    /\ listing.pc = "awaiting" => Len(listing.options) = listing.index - 1
    /\ \A i \in 1..Len(listing.options) :
          /\ listing.options[i].id = DeclarationOrder[i]
          /\ listing.options[i].supported =
                IF DeclarationOrder[i] \in {"mp3", "wav"} THEN "true"
                ELSE supportChecks[DeclarationOrder[i]]
          /\ listing.options[i].supported \in {"true", "false"}
          /\ listing.options[i].reason # "undefined" <=> listing.options[i].supported = "false"
    /\ probes["flac"].calls > 0 => Len(listing.options) >= 4
    /\ probes["aac"].calls > 0 => Len(listing.options) >= 3

\* C17 witness: the listing returned with a probed format supported (no
\* reason) and another unsupported (with its reason).
C17_Witness ==
    /\ listing.pc = "done"
    /\ listing.options[3].supported = "true" /\ listing.options[3].reason = "undefined"
    /\ listing.options[4].supported = "false" /\ listing.options[4].reason = UnsupportedMessage("aac")

\* C18: the header dump is logged only by a call whose container detection
\* failed, as that call's last event; the call has then failed with the
\* detection error (also when its cancellation was requested meanwhile),
\* without a plan having been built or execute invoked; and a call leaves
\* FormatDetecting either detected, or failed in this way.
C18_DetectionFailureNotSwallowed ==
    /\ [](\A c \in Calls :
            /\ LogCount(call[c].events, HeaderDumpLog) > 0 =>
                  /\ call[c].pc = "done"
                  /\ call[c].outcome = "DetectionFailure"
                  /\ call[c].events[Len(call[c].events)] = Log(HeaderDumpLog)
            /\ call[c].outcome = "DetectionFailure" =>
                  /\ LogCount(call[c].events, HeaderDumpLog) = 1
                  /\ LogCount(call[c].events, DetectedLog) = 0
                  /\ ~call[c].conversion
                  /\ call[c].execState = "notInvoked"
                  /\ call[c].blob = "none")
    /\ [][\A c \in Calls :
            (call[c].pc = "detecting" /\ call'[c].pc # "detecting") =>
                \/ /\ call'[c].pc = "planning"
                   /\ call'[c].events = Append(call[c].events, Log(DetectedLog))
                \/ /\ call'[c].outcome = "DetectionFailure"
                   /\ call'[c].events = Append(call[c].events, Log(HeaderDumpLog))]_vars

\* C18 witness: detection failed for a call whose cancellation had been
\* requested while the detection was pending.
C18_Witness ==
    \E c \in Calls :
        /\ call[c].outcome = "DetectionFailure"
        /\ call[c].cancelRequested
        /\ call[c].inputState = "disposed"

\* The clause the claim gives for one discarded track.
ClauseOf(t) == t.type \o " track discarded (" \o HumanizeReason(t.reason) \o ")"

\* The clauses of the tracks ts (at least one), in track order, joined with "; ".
RECURSIVE ClausesInOrder(_)
ClausesInOrder(ts) ==
    IF Len(ts) = 1 THEN ClauseOf(ts[1])
    ELSE ClausesInOrder(SubSeq(ts, 1, Len(ts) - 1)) \o "; " \o ClauseOf(ts[Len(ts)])

\* C19: a call whose plan was built and is not valid has failed with
\* PlanInvalid without execute being invoked (no 'Transcoding' line, no
\* engine state); when the plan carries discarded tracks, the message is
\* 'Unable to convert this file: ' followed by one clause
\* '<kind> track discarded (<reason phrase>)' per track, in track order,
\* joined with '; ', and a full stop.
C19_InvalidPlanFails ==
    \A c \in Calls :
        /\ (call[c].conversion /\ ~call[c].isValid) =>
              /\ call[c].pc = "done"
              /\ call[c].outcome = "PlanInvalid"
              /\ call[c].execState = "notInvoked"
              /\ LogCount(call[c].events, TranscodeLog) = 0
              /\ call[c].discardedTracks # <<>> =>
                    call[c].message =
                        "Unable to convert this file: "
                            \o ClausesInOrder(call[c].discardedTracks) \o "."
        /\ call[c].outcome = "PlanInvalid" => call[c].conversion /\ ~call[c].isValid

\* C19 witness: a plan with a discarded video track and a discarded audio
\* track, both of unknown source codec, was refused.
C19_Witness ==
    \E c \in Calls :
        /\ call[c].outcome = "PlanInvalid"
        /\ call[c].discardedTracks = <<[type |-> "video", reason |-> "unknown_source_codec"],
                                       [type |-> "audio", reason |-> "unknown_source_codec"]>>
        /\ call[c].message = "Unable to convert this file: video track discarded (unknown source codec); audio track discarded (unknown source codec)."

\* C20: within one convert call format detection, plan building and execute
\* are each invoked at most once (and the input released at most once); the
\* step in which the call fails, is cancelled or completes performs no engine
\* operation other than releasing the input; and a settled call performs
\* none at all.
C20_NoRetry ==
    /\ [](\A c \in Calls : \A o \in {"getFormat", "init", "execute", "dispose"} :
            OpCount(call[c].engineOps, o) <= 1)
    /\ [][\A c \in Calls :
            /\ (call[c].pc # "done" /\ call'[c].pc = "done") =>
                  \/ call'[c].engineOps = call[c].engineOps
                  \/ call'[c].engineOps = Append(call[c].engineOps, "dispose")
            /\ call[c].pc = "done" =>
                  /\ call'[c].engineOps = call[c].engineOps
                  /\ call'[c].outcome = call[c].outcome]_vars

\* C20 witness: a call whose execute() rejected has settled with each engine
\* operation invoked once, and a later call was made and is running.
C20_Witness ==
    \E c, d \in Calls :
        /\ call[c].outcome = "ExecFailed"
        /\ call[c].engineOps = <<"getFormat", "init", "execute", "dispose">>
        /\ d > c /\ call[d].pc = "executing"

\* The outcomes a convert call can settle with.
TerminalOutcomes ==
    {"Completed", "Cancelled", "Busy", "UnsupportedFormat", "LoadFailed", "DetectionFailure",
     "InitFailed", "PlanInvalid", "ExecFailed", "EmptyOutput"}

\* C21: a call settles at most once (its outcome, once set, is one of the
\* terminal outcomes and never changes); if the engine's execute, once
\* invoked, eventually settles, every call that was made eventually settles;
\* and a call in Executing whose cancellation is requested settles whether or
\* not execute ever does.
C21_ExactlyOneOutcome ==
    /\ [][\A c \in Calls :
            call[c].pc = "done" => call'[c].pc = "done" /\ call'[c].outcome = call[c].outcome]_vars
    /\ [](\A c \in Calls :
            (call[c].pc = "done") = (call[c].outcome \in TerminalOutcomes)
            /\ (call[c].pc # "done") = (call[c].outcome = "none"))
    /\ ([]<>(call[1].execState # "running")) =>
            ((call[1].pc # "idle") ~> (call[1].pc = "done"))
    /\ (call[1].pc = "executing" /\ call[1].cancelRequested) ~> (call[1].pc = "done")

\* C21 witness: a call cancelled in Executing has settled Cancelled while the
\* engine's execute is still running.
C21_Witness ==
    /\ call[1].outcome = "Cancelled"
    /\ call[1].execState = "running"
    /\ call[1].abortCalls = 1

\* The reason phrases as the claim lists them.
ListedPhrases ==
    [r \in DiscardReasons |->
        CASE r = "discarded_by_user" -> "discarded by configuration"
          [] r = "max_track_count_reached" -> "output format limit reached"
          [] r = "max_track_count_of_type_reached" -> "too many tracks of this type for the output format"
          [] r = "unknown_source_codec" -> "unknown source codec"
          [] r = "undecodable_source_codec" -> "source codec not decodable in this runtime"
          [] r = "no_encodable_target_codec" -> "no compatible encoder available"
          [] OTHER -> "unsupported track"]

\* The listed phrases with the phrase for an undecodable source codec as
\* the code words it.
BrowserPhrases ==
    [ListedPhrases EXCEPT !["undecodable_source_codec"] = "source codec not decodable in this browser"]

\* The message for the discarded tracks ts (at least one) under a table of
\* reason phrases.
RECURSIVE ClausesWith(_, _)
ClausesWith(ts, phrases) ==
    IF Len(ts) = 1
    THEN ts[1].type \o " track discarded (" \o phrases[ts[1].reason] \o ")"
    ELSE ClausesWith(SubSeq(ts, 1, Len(ts) - 1), phrases) \o "; "
           \o ts[Len(ts)].type \o " track discarded (" \o phrases[ts[Len(ts)].reason] \o ")"

\* C23 as stated: the phrase rendered for every discarded track of a refused
\* plan is the one the claim lists for its reason code ('source codec not
\* decodable in this runtime' for an undecodable source codec, 'unsupported
\* track' for a code outside the list).
C23_PhrasesAsListed ==
    \A c \in Calls :
        (call[c].outcome = "PlanInvalid" /\ call[c].discardedTracks # <<>>) =>
            call[c].message =
                "Unable to convert this file: "
                    \o ClausesWith(call[c].discardedTracks, ListedPhrases) \o "."

\* C23 amended: the same, with 'source codec not decodable in this browser'
\* as the phrase for an undecodable source codec.
C23_PhrasesOfTheCode ==
    \A c \in Calls :
        (call[c].outcome = "PlanInvalid" /\ call[c].discardedTracks # <<>>) =>
            call[c].message =
                "Unable to convert this file: "
                    \o ClausesWith(call[c].discardedTracks, BrowserPhrases) \o "."

\* C23 witness: a plan was refused with a track of undecodable source codec
\* and a track whose reason code is outside the mapping.
C23_Witness ==
    \E c \in Calls :
        /\ call[c].outcome = "PlanInvalid"
        /\ Len(call[c].discardedTracks) = 2
        /\ call[c].discardedTracks[1].reason = "undecodable_source_codec"
        /\ call[c].discardedTracks[2].reason = "some_other_code"

\* The base name as the claim words it: the extension stripped, every run of
\* characters outside [a-zA-Z0-9_-] replaced with one underscore, leading and
\* trailing underscores trimmed, lower-cased, cut to 64 characters.
StatedBase(name) ==
    LET b == ToLowerCase(TrimUnderscores(ReplaceOutsideRuns(StripExtension(name))))
    IN  SubSeq(b, 1, Min(Len(b), SliceLimit))

\* The same with every run of underscores collapsed into one before the
\* trimming.
CollapsedBase(name) ==
    LET b == ToLowerCase(TrimUnderscores(CollapseUnderscores(
                 ReplaceOutsideRuns(StripExtension(name)))))
    IN  SubSeq(b, 1, Min(Len(b), SliceLimit))

OrAudio(base) == IF base = <<>> THEN <<"a", "u", "d", "i", "o">> ELSE base

\* The part of a built name in front of its extension.
BaseOf(fileName, extension) == SubSeq(fileName, 1, Len(fileName) - Len(extension))

\* For every source name the base is non-empty and at most 64 characters
\* long, and the name ends with the extension; the two names the claim
\* gives come out as it says.
NameBounds ==
    naming.fileName # "none" =>
        /\ Len(naming.fileName) > Len(naming.extension)
        /\ Len(naming.fileName) <= SliceLimit + Len(naming.extension)
        /\ SubSeq(naming.fileName, Len(naming.fileName) - Len(naming.extension) + 1,
                  Len(naming.fileName)) = naming.extension
        /\ (naming.originalName = ClipName /\ naming.extension = Extension("mp3")) =>
               naming.fileName = <<"m", "y", "_", "c", "l", "i", "p", "_",
                                   "f", "i", "n", "a", "l", ".", "m", "p", "3">>
        /\ (naming.originalName = SymbolName /\ naming.extension = Extension("mp3")) =>
               naming.fileName = <<"a", "u", "d", "i", "o", ".", "m", "p", "3">>

\* C24 as stated: the output name is the base followed by the extension,
\* the base being the source name with its extension stripped, every run of
\* characters outside [a-zA-Z0-9_-] replaced with one underscore, the
\* underscores at its ends trimmed, lower-cased, cut to 64 characters, and
\* 'audio' if that is empty; the base is non-empty and at most 64 long and
\* the name ends with the extension.
C24_NameAsStated ==
    /\ NameBounds
    /\ naming.fileName # "none" =>
           naming.fileName = OrAudio(StatedBase(naming.originalName)) \o naming.extension

\* C24 amended: the same, with every run of underscores of the replaced name
\* collapsed into one before the trimming.
C24_NameWithCollapsedUnderscores ==
    /\ NameBounds
    /\ naming.fileName # "none" =>
           naming.fileName = OrAudio(CollapsedBase(naming.originalName)) \o naming.extension

\* C24 witness: a name was built from a source name whose base was cut to
\* 64 characters and held two underscores in a row.
C24_Witness ==
    /\ naming.fileName # "none"
    /\ Len(naming.fileName) = SliceLimit + Len(naming.extension)
    /\ Len(StripExtension(naming.originalName)) > SliceLimit
    /\ \E i \in 1..(Len(naming.originalName) - 1) :
           naming.originalName[i] = "_" /\ naming.originalName[i + 1] = "_"

\* convertSelected() resumes from its await in this step.
ConvertSelectedResumes == ui.call # NoCall /\ ui'.call = NoCall

\* C22: when a conversion started from the component fails, the message
\* shown is the fixed one of its failure kind; in particular a detection
\* failure is shown as the fixed message listing the supported containers,
\* whatever the message of the engine's error is, and a cancelled
\* conversion shows no error message.
C22_FailureKindsShownFixed ==
    [][ConvertSelectedResumes =>
          LET r == call[ui.call] IN
          /\ r.outcome = "DetectionFailure" => ui'.errorMessage = NoStreamsMessage
          /\ r.outcome = "EmptyOutput" =>
                 ui'.errorMessage = "Mediabunny did not return any audio bytes."
          /\ r.outcome = "UnsupportedFormat" =>
                 ui'.errorMessage = NotSupportedMessage(r.formatId)
          /\ r.outcome = "PlanInvalid" =>
                 ui'.errorMessage = InvalidPlanMessage(r.discardedTracks)
          /\ r.outcome \in {"Cancelled", "Completed"} =>
                 ui'.errorMessage = ui.errorMessage]_vars

\* The moves between positions of a call that follow the order of the
\* stages (the support check comes before Loading; any stage may end the call).
StageSteps ==
    {<<"idle", "probing">>, <<"probing", "loading">>, <<"loading", "detecting">>,
     <<"detecting", "planning">>, <<"planning", "executing">>}
        \cup {<<p, "done">> : p \in {"idle", "probing", "loading", "detecting",
                                      "planning", "executing"}}

\* Each call moves through the stages in order; the engine's plan building
\* is invoked only after detection succeeded, execute only after a valid
\* plan was built, and Completed is reached only after execute resolved.
OrderWithinOneCall ==
    /\ [][\A c \in Calls :
            call'[c].pc # call[c].pc => <<call[c].pc, call'[c].pc>> \in StageSteps]_vars
    /\ [](\A c \in Calls :
            /\ OpCount(call[c].engineOps, "init") > 0 =>
                   LogCount(call[c].events, DetectedLog) = 1
            /\ OpCount(call[c].engineOps, "execute") > 0 =>
                   call[c].conversion /\ call[c].isValid
            /\ call[c].outcome = "Completed" => call[c].execState = "resolved")

\* C25: each call moves through the stages in the order Loading,
\* FormatDetecting, PlanValidating, Executing, terminal; the engine's plan
\* building is invoked only after detection succeeded, execute only after a
\* valid plan was built, Completed is reached only after execute resolved;
\* and a call is accepted (not rejected as Busy) only when every other call
\* is still to be made or has settled.
C25_StagesInOrder ==
    /\ OrderWithinOneCall
    /\ [][\A c \in Calls :
            (call[c].pc = "idle" /\ call'[c].pc # "idle" /\ call'[c].outcome # "Busy")
                => \A d \in Calls \ {c} : call[d].pc \in {"idle", "done"}]_vars

\* logs holds the last min(n, 40) of the n lines of emitted, in order.
HoldsLastOf(logs, emitted) ==
    LET n == Len(emitted)
        k == IF n < LogLimit THEN n ELSE LogLimit
    IN  /\ Len(logs) = k
        /\ \A i \in 1..k : logs[i] = emitted[n - k + i]

\* C26 as stated: the component's log never holds more than 40 entries, and
\* during a conversion it holds exactly the last min(n, 40) of the n lines
\* the core has emitted for that conversion, in emission order.
C26_LogsAreLastLinesEmitted ==
    /\ Len(ui.logs) <= LogLimit
    /\ ui.call # NoCall => HoldsLastOf(ui.logs, ui.logged)

\* C26 amended: the same over the lines emitted since the component last
\* set its log to empty (at the start of the conversion, or when a file or
\* a format was selected while it ran).
C26_LogsAreLastLinesSinceReset ==
    /\ Len(ui.logs) <= LogLimit
    /\ ui.call # NoCall => HoldsLastOf(ui.logs, ui.loggedSinceReset)

\* C26 witness: more than 40 lines were emitted after the log was reset in
\* the middle of a conversion.
C26_Witness ==
    /\ ui.call # NoCall
    /\ Len(ui.loggedSinceReset) > LogLimit
    /\ Len(ui.logged) > Len(ui.loggedSinceReset)
    /\ Len(ui.logs) = LogLimit

\* The progress values among the events es, in order.
RECURSIVE ProgressValues(_)
ProgressValues(es) ==
    IF es = <<>> THEN <<>>
    ELSE IF Head(es).kind = "progress"
    THEN <<Head(es).ratio>> \o ProgressValues(Tail(es))
    ELSE ProgressValues(Tail(es))

\* C27: once the caller (here the component) has asked the service to
\* cancel the conversion it started, no further progress value is relayed
\* for that conversion; and the final progress value 1 is emitted only for a
\* call that ends Completed.
C27_NoProgressAfterCancel ==
    /\ [][(ui.call # NoCall /\ ui.cancelAsked) =>
             ProgressValues(call'[ui.call].events) = ProgressValues(call[ui.call].events)]_vars
    /\ [](\A c \in Calls :
             (\E i \in 1..Len(call[c].events) : call[c].events[i] = Progress(10))
                 => call[c].outcome = "Completed")

\* The same for a cancellation the call's cancel closure has recorded: no
\* progress value is relayed once cancelRequested is set, and none of the
\* values of a call that ends otherwise than Completed is the final one.
NoProgressOnceRecorded ==
    /\ [][\A c \in Calls :
            call[c].cancelRequested =>
                ProgressValues(call'[c].events) = ProgressValues(call[c].events)]_vars
    /\ [](\A c \in Calls :
            (call[c].pc = "done" /\ call[c].outcome # "Completed") =>
                Len(ProgressValues(call[c].events))
                    <= 1 + Len(call[c].engineReports))

\* C28: a call for which the engine's execute was invoked and which ends
\* Cancelled has had the engine's abort (conversion.cancel) invoked, whenever
\* its cancellation was requested.
C28_CancelledExecutionIsAborted ==
    \A c \in Calls :
        (call[c].outcome = "Cancelled" /\ OpCount(call[c].engineOps, "execute") > 0)
            => /\ call[c].abortCalls >= 1
               /\ OpCount(call[c].engineOps, "cancel") >= 1

\* The stages in which a call has installed its cancel closure.
MarkedStages == {"detecting", "planning", "executing"}

\* C29: while a call is in FormatDetecting, PlanValidating or Executing the
\* marker refers to that call's cancel closure, and no step that leaves the
\* call in one of these stages clears the marker or hands it to another call.
C29_MarkerFollowsRunningCall ==
    /\ [](\A c \in Calls : call[c].pc \in MarkedStages => activeCancel = c)
    /\ [][\A c \in Calls :
            (activeCancel = c /\ call[c].pc \in MarkedStages
                /\ call'[c].pc \in MarkedStages) => activeCancel' = c]_vars

\* C30: when another file was selected while a conversion started from the
\* component was in flight, the settlement of that conversion publishes
\* nothing: downloadUrl and outputFileName never hold a result made from a
\* file other than the selected one.
C30_NoStaleResultPublished ==
    /\ [][(ConvertSelectedResumes /\ ui.selectedFile # ui.file) =>
             (ui'.downloadUrl = NoUrl /\ ui'.outputFileName = <<>>)]_vars
    /\ [](ui.downloadUrl # NoUrl => ui.downloadUrl.file = ui.selectedFile)

====
